---- MODULE Spec2Model ----
(***************************************************************************)
(* Marketplace backend over two stores: a document store (MongoDB          *)
(* repositories and routers) and a property graph (Neo4j repositories,     *)
(* routers and the migration script), both fed from one relational source. *)
(* The specifications share the variables:                                 *)
(*   SpecDoc       the document store: live repository operations and the  *)
(*                 document migration;                                     *)
(*   Spec          the graph store: the owner-gated product API and view   *)
(*                 tracking;                                               *)
(*   SpecRec       the graph store: favourites, views and recommendations  *)
(*                 over products created at different times;               *)
(*   SpecGraphMig  the graph migration of users and products, between      *)
(*                 registrations and status toggles;                       *)
(*   SpecGraphViews the four passes of the graph migration, item views and *)
(*                 favourites included, between live interactions;         *)
(*   SpecDocMig    the passes of the document migration, re-run over a     *)
(*                 source whose rows change;                               *)
(*   SpecConc      request handlers of both stores in flight together,     *)
(*                 one store call per step;                                *)
(*   SpecConcUsers concurrent creations of User nodes, with or without the *)
(*                 uniqueness constraints;                                 *)
(*   SpecGraphDerived the graph migration with its messages pass and its   *)
(*                 derived-edge pass, between live favourites;             *)
(*   SpecGraphSimilar the products passes and the derived-edge pass over a *)
(*                 source whose products change category;                  *)
(*   SpecGraphOwners created and migrated products and their owners, over a*)
(*                 source in which a product changes hands;                *)
(*   SpecDocCounters the counter-writing operations of the document store; *)
(*   SpecAuth      principal resolution on authenticated requests;         *)
(*   SpecStartup   init_neo4j under the lifespan handler (SpecStartupFair: *)
(*                 with the startup coroutine running on);                 *)
(*   SpecConcToggle status toggles of one product in flight together.      *)
(***************************************************************************)
EXTENDS Integers, Sequences, FiniteSets, TLC

VARIABLES
    now,            \* wall clock (datetime.now), in ticks
    resp,           \* what the last handler returned or raised
    srcUsers,       \* relational source: users table, id -> row
    srcProducts,    \* relational source: products table, id -> row
    srcFavorites,   \* relational source: favorites table, a set of rows
    dUsers,         \* document store: users collection
    dProducts,      \* document store: products collection
    dConversations, \* document store: conversations collection
    dNextOid,       \* document store: next generated ObjectId
    dHist,          \* history: per user _id, product_count bookkeeping
    dLiveViews,     \* history: per product _id, the number of live view events
    gUsers,         \* graph: User nodes
    gProducts,      \* graph: Product nodes
    gCategories,    \* graph: Category nodes
    gLocations,     \* graph: Location nodes
    gEdges,         \* graph: relationships
    gNextId,        \* graph: next internal node / relationship id
    gNextUuid,      \* graph: next uuid4 handed to a created product
    mig,            \* history: graph migration passes run in a row, and the graph they left
    procs,          \* request handlers in flight: where each stands and what it has read
    gConstraint,    \* graph: whether the uniqueness constraints exist
    gHist,          \* history: per product id, the counter deltas and toggles applied
    startup         \* the lifespan handler: where init_neo4j stands, and its locals

srcVars   == <<srcUsers, srcProducts, srcFavorites>>
docVars   == <<dUsers, dProducts, dNextOid, dHist, dLiveViews>>
graphVars == <<gUsers, gProducts, gCategories, gLocations, gEdges, gNextId, gNextUuid>>
concVars  == <<procs, gConstraint, gHist, startup>>
vars      == <<now, resp, srcVars, docVars, dConversations, graphVars, mig, concVars>>

----------------------------------------------------------------------------
(* Bounds of the model *)

MaxTime == 1          \* clock ticks
MaxOid == 4           \* ObjectIds the document store hands out
MaxDocViews == 2      \* live view events in the document store
MaxUuid == 1          \* products created through the graph API
MaxInteractions == 1  \* favourites and views recorded through the graph API
MaxRecProducts == 3   \* products created when recommendations are exercised
MaxRecInteractions == 3  \* favourites and views when recommendations are exercised
MaxLimit == 1         \* largest limit asked of recommendations
MaxMigRuns == 2       \* graph migration passes counted in a row
MaxLiveEdges == 1     \* live views and favourites between migration passes
MaxProcs == 2         \* request handlers in flight at once
MaxConcInteractions == 2  \* favourites and views recorded among concurrent handlers
MaxCounter == 1       \* how far a document counter is stepped by the counter methods
MaxToggles == 3       \* status toggles of one product, finished or in flight

(* Program constants *)

RecentViewsCap == 10
ItemViewsLimit == 1000
InitAttempts == 20     \* for _ in range(20)
RetryDelay == 1        \* asyncio.sleep(1), in seconds

----------------------------------------------------------------------------
(* Values *)

NullStr == "NULL"                 \* None for a string-valued field
NullInt == -1                     \* None for a number-valued field
NoId == <<"none", 0>>             \* None for an id string

Min(a, b) == IF a < b THEN a ELSE b

\* An id string is <<kind, n>>: "oid" a 24-hex ObjectId string, "dec" the decimal
\* string of a relational integer key, "uuid" a uuid4 string, "bad" anything else.
OidStr(n) == <<"oid", n>>
DecStr(n) == <<"dec", n>>
UuidStr(n) == <<"uuid", n>>

\* bson ObjectId.is_valid: only a 24-character hex string is one.
ObjectIdIsValid(s) == s[1] = "oid"

\* A response: the handler, what it returned or raised (an HTTP status for a
\* router, the return value or the exception for a repository method), and for
\* recommendations the products returned with their scores.
Resp(op, status) == [op |-> op, status |-> status, out |-> <<>>, score |-> <<>>]

NoResp == Resp("init", "none")

----------------------------------------------------------------------------
(* The relational source, which both migrations only read *)

SrcLocations == (1 :> [city |-> "Aarhus", postcode |-> "8000"])
             @@ (2 :> [city |-> "Odense", postcode |-> "5000"])

SrcCategories == (1 :> [name |-> "Books", parent_id |-> 0])
              @@ (2 :> [name |-> "Comics", parent_id |-> 1])

\* full_name NullStr is a NULL column; location_id 0 is NULL, 7 dangles.
SrcUsersInit ==
       (1 :> [username |-> "alice", email |-> "a@x", full_name |-> "Alice A",
              is_active |-> TRUE, is_admin |-> FALSE, location_id |-> 1,
              created_at |-> 0])
    @@ (2 :> [username |-> "bob", email |-> "b@x", full_name |-> NullStr,
              is_active |-> TRUE, is_admin |-> TRUE, location_id |-> 0,
              created_at |-> 0])

\* seller_id 9 dangles (no such user row); category_id / location_id 0 is NULL.
SrcProductsInit ==
       (1 :> [seller_id |-> 1, title |-> "Lamp", description |-> "old",
              price_amount |-> 100, status |-> "active", views_count |-> 12,
              likes_count |-> 1, created_at |-> 1, category_id |-> 1,
              location_id |-> 1])
    @@ (2 :> [seller_id |-> 2, title |-> "Desk", description |-> NullStr,
              price_amount |-> 250, status |-> "sold", views_count |-> 2,
              likes_count |-> 0, created_at |-> 1, category_id |-> 2,
              location_id |-> 0])
    @@ (3 :> [seller_id |-> 9, title |-> "Ghost", description |-> NullStr,
              price_amount |-> 5, status |-> "active", views_count |-> 0,
              likes_count |-> 0, created_at |-> 0, category_id |-> 0,
              location_id |-> 0])

\* favorites rows: alice likes both products, bob one.
SrcFavoritesInit ==
    { [user_id |-> 1, product_id |-> 1, created_at |-> 0],
      [user_id |-> 1, product_id |-> 2, created_at |-> 1],
      [user_id |-> 2, product_id |-> 1, created_at |-> 1] }

\* conversations rows, and their participants and messages. Conversation 2 has
\* a participant whose user row is missing, conversation 3 a single participant.
SrcConversations ==
       (1 :> [product_id |-> 1, created_at |-> 0])
    @@ (2 :> [product_id |-> 0, created_at |-> 1])
    @@ (3 :> [product_id |-> 2, created_at |-> 1])

SrcParticipants ==
    { [conversation_id |-> 1, user_id |-> 1], [conversation_id |-> 1, user_id |-> 2],
      [conversation_id |-> 2, user_id |-> 1], [conversation_id |-> 2, user_id |-> 9],
      [conversation_id |-> 3, user_id |-> 2] }

SrcMessages ==
    { [id |-> 1, conversation_id |-> 1, sender_id |-> 1, body |-> "hi", created_at |-> 0],
      [id |-> 2, conversation_id |-> 1, sender_id |-> 2, body |-> "yo", created_at |-> 1],
      [id |-> 3, conversation_id |-> 2, sender_id |-> 9, body |-> "?", created_at |-> 1] }

\* item_views rows: twelve for product 1 (not in time order), two for product 2.
SrcItemViews ==
    { [id |-> i, product_id |-> 1, viewer_user_id |-> (i % 3),
       viewed_at |-> (i * 5) % 13] : i \in 1..12 }
    \cup { [id |-> 13, product_id |-> 2, viewer_user_id |-> 1, viewed_at |-> 3],
           [id |-> 14, product_id |-> 2, viewer_user_id |-> 0, viewed_at |-> 4] }

----------------------------------------------------------------------------
(* Document store: MongoDBProductRepository and the products router *)

\* Mutant: find_one without its {"_id": oid} filter.
DocUserById_Any(oid) == dUsers

\* users_collection.find_one({"_id": ObjectId(seller_id)})
DocUserById(oid) == {u \in dUsers : u._id = oid}

\* Mutant: the $inc without its {"_id": oid} filter.
IncProductCount_NoFilter(users, oid, delta) ==
    { [u EXCEPT !.product_count = @ + delta] : u \in users }

\* users_collection.update_one({"_id": oid}, {"$inc": {"product_count": delta}})
IncProductCount(users, oid, delta) ==
    { IF u._id = oid THEN [u EXCEPT !.product_count = @ + delta] ELSE u : u \in users }

LiveViewTotal ==
    LET RECURSIVE Sum(_)
        Sum(S) == IF S = {} THEN 0
                  ELSE LET x == CHOOSE y \in S : TRUE
                       IN dLiveViews[x] + Sum(S \ {x})
    IN Sum(DOMAIN dLiveViews)

\* MongoDBUserRepository.create behind the users router: the username must be free.
Mongo_create_user(username) ==
    /\ dNextOid <= MaxOid
    /\ IF \E u \in dUsers : u.username = username
       THEN /\ resp' = Resp("create_user", "400")
            /\ UNCHANGED docVars
       ELSE /\ dUsers' = dUsers \cup
                 {[_id |-> dNextOid, username |-> username, full_name |-> username,
                   is_active |-> TRUE, is_admin |-> FALSE,
                   product_count |-> 0, created_at |-> now,
                   favorites |-> {}, favorite_count |-> 0]}
            /\ dNextOid' = dNextOid + 1
            /\ dHist' = (dNextOid :> [init |-> 0, creates |-> 0, deletes |-> 0]) @@ dHist
            /\ resp' = Resp("create_user", "201")
            /\ UNCHANGED <<dProducts, dLiveViews>>
    /\ UNCHANGED <<now, srcVars, dConversations, concVars, graphVars, mig>>

\* The product document create() inserts.
NewProductDoc(oid, seller, title) ==
    [_id |-> oid, legacy |-> 0, title |-> title, description |-> NullStr,
     status |-> "active",
     seller |-> [id |-> OidStr(seller._id), username |-> seller.username],
     category |-> NullStr, view_count |-> 0, favorite_count |-> 0,
     recent_views |-> <<>>, created_at |-> now]

\* MongoDBProductRepository.create(product_data, seller_id). The categories
\* collection is written by nothing, so a valid category_id resolves to no category.
Mongo_create(seller_id, category_id) ==
    /\ dNextOid <= MaxOid
    /\ IF ~ObjectIdIsValid(seller_id)
       THEN /\ resp' = [Resp("create", "ValueError") EXCEPT !.out = <<"Invalid seller ID">>]
            /\ UNCHANGED docVars
       ELSE IF DocUserById(seller_id[2]) = {}
       THEN /\ resp' = [Resp("create", "ValueError") EXCEPT !.out = <<"Seller not found">>]
            /\ UNCHANGED docVars
       ELSE IF category_id # NoId /\ ~ObjectIdIsValid(category_id)
       THEN /\ resp' = Resp("create", "InvalidId")
            /\ UNCHANGED docVars
       ELSE LET seller == CHOOSE u \in DocUserById(seller_id[2]) : TRUE
            IN /\ dProducts' = dProducts \cup {NewProductDoc(dNextOid, seller, "New")}
               /\ dNextOid' = dNextOid + 1
               /\ dUsers' = IncProductCount(dUsers, seller_id[2], 1)
               /\ dHist' = [dHist EXCEPT ![seller_id[2]].creates = @ + 1]
               /\ dLiveViews' = (dNextOid :> 0) @@ dLiveViews
               /\ resp' = Resp("create", "ok")
    /\ UNCHANGED <<now, srcVars, dConversations, concVars, graphVars, mig>>

\* MongoDBProductRepository.get_by_id: the documents product_id finds.
Mongo_get_by_id(product_id) ==
    IF ~ObjectIdIsValid(product_id) THEN {}
    ELSE {d \in dProducts : d._id = product_id[2]}

\* Mutant: the $inc applied to every product document.
Mongo_increment_view_count_All(products, product_id) ==
    { [d EXCEPT !.view_count = @ + 1] : d \in products }

\* MongoDBProductRepository.increment_view_count
Mongo_increment_view_count(products, product_id) ==
    IF ObjectIdIsValid(product_id)
    THEN { IF d._id = product_id[2] THEN [d EXCEPT !.view_count = @ + 1] ELSE d
           : d \in products }
    ELSE products

\* MongoDBProductRepository.increment_favorite_count / decrement_favorite_count:
\* update_one({"_id": oid}, {"$inc": {"stats.favorite_count": delta}})
IncFavoriteCount(products, product_id, delta) ==
    IF ObjectIdIsValid(product_id)
    THEN { IF d._id = product_id[2] THEN [d EXCEPT !.favorite_count = @ + delta] ELSE d
           : d \in products }
    ELSE products

Mongo_increment_favorite_count(product_id) ==
    /\ dProducts' = IncFavoriteCount(dProducts, product_id, 1)
    /\ resp' = Resp("increment_favorite_count", "none")
    /\ UNCHANGED <<dUsers, dNextOid, dHist, dLiveViews>>
    /\ UNCHANGED <<now, srcVars, dConversations, concVars, graphVars, mig>>

Mongo_decrement_favorite_count(product_id) ==
    /\ dProducts' = IncFavoriteCount(dProducts, product_id, -1)
    /\ resp' = Resp("decrement_favorite_count", "none")
    /\ UNCHANGED <<dUsers, dNextOid, dHist, dLiveViews>>
    /\ UNCHANGED <<now, srcVars, dConversations, concVars, graphVars, mig>>

\* MongoDBUserRepository.increment_product_count / decrement_product_count
Mongo_increment_product_count(user_id) ==
    /\ dUsers' = IF ObjectIdIsValid(user_id)
                 THEN IncProductCount(dUsers, user_id[2], 1) ELSE dUsers
    /\ resp' = Resp("increment_product_count", "none")
    /\ UNCHANGED <<dProducts, dNextOid, dHist, dLiveViews>>
    /\ UNCHANGED <<now, srcVars, dConversations, concVars, graphVars, mig>>

Mongo_decrement_product_count(user_id) ==
    /\ dUsers' = IF ObjectIdIsValid(user_id)
                 THEN IncProductCount(dUsers, user_id[2], -1) ELSE dUsers
    /\ resp' = Resp("decrement_product_count", "none")
    /\ UNCHANGED <<dProducts, dNextOid, dHist, dLiveViews>>
    /\ UNCHANGED <<now, srcVars, dConversations, concVars, graphVars, mig>>

\* GET /mongodb/products/{product_id}
Mongo_get_product(product_id) ==
    /\ IF Mongo_get_by_id(product_id) = {}
       THEN /\ resp' = Resp("get_product", "404")
            /\ UNCHANGED docVars
       ELSE /\ dProducts' = Mongo_increment_view_count(dProducts, product_id)
            /\ dLiveViews' = [dLiveViews EXCEPT ![product_id[2]] = @ + 1]
            /\ resp' = Resp("get_product", "200")
            /\ UNCHANGED <<dUsers, dNextOid, dHist>>
    /\ UNCHANGED <<now, srcVars, dConversations, concVars, graphVars, mig>>

\* MongoDBProductRepository.delete(product_id): ObjectId(seller_id) raises
\* InvalidId, after the delete_one, when seller.id is no ObjectId string.
Mongo_delete(product_id) ==
    /\ IF Mongo_get_by_id(product_id) = {}
       THEN /\ resp' = Resp("delete", "false")
            /\ UNCHANGED docVars
       ELSE LET product == CHOOSE d \in Mongo_get_by_id(product_id) : TRUE
                seller_id == product.seller.id
            IN /\ dProducts' = dProducts \ {product}
               /\ dLiveViews' = [x \in DOMAIN dLiveViews \ {product._id} |-> dLiveViews[x]]
               /\ IF ObjectIdIsValid(seller_id)
                  THEN /\ dUsers' = IncProductCount(dUsers, seller_id[2], -1)
                       /\ dHist' = [x \in DOMAIN dHist |->
                                      IF x = seller_id[2]
                                      THEN [dHist[x] EXCEPT !.deletes = @ + 1]
                                      ELSE dHist[x]]
                       /\ resp' = Resp("delete", "true")
                  ELSE /\ UNCHANGED <<dUsers, dHist>>
                       /\ resp' = Resp("delete", "InvalidId")
               /\ UNCHANGED dNextOid
    /\ UNCHANGED <<now, srcVars, dConversations, concVars, graphVars, mig>>

----------------------------------------------------------------------------
(* Document migration: scripts/migrate_to_mongodb.py *)

SetMin(S) == CHOOSE x \in S : \A y \in S : x <= y

\* ORDER BY viewed_at DESC over a set of item_views rows.
RECURSIVE OrderByViewedAtDesc(_)
OrderByViewedAtDesc(rows) ==
    IF rows = {} THEN <<>>
    ELSE LET top == CHOOSE r \in rows : \A q \in rows : q.viewed_at <= r.viewed_at
         IN <<top>> \o OrderByViewedAtDesc(rows \ {top})

\* .limit(n)
Limit(seq, n) == SubSeq(seq, 1, Min(n, Len(seq)))

\* recent_views of a migrated product: the ten newest item_views rows.
ViewsEmb(pid) ==
    LET recent == Limit(OrderByViewedAtDesc({v \in SrcItemViews : v.product_id = pid}),
                        RecentViewsCap)
    IN [i \in 1..Len(recent) |->
          [viewer_user_id |-> recent[i].viewer_user_id, viewed_at |-> recent[i].viewed_at]]

SrcProductCount(uid) ==
    Cardinality({p \in DOMAIN srcProducts : srcProducts[p].seller_id = uid})

\* migrate_users: one upsert by username per source user, product_count recounted.
RECURSIVE MigrateUsersLoop(_, _)
MigrateUsersLoop(ids, st) ==
    IF ids = {} THEN st
    ELSE LET id == SetMin(ids)
             u == srcUsers[id]
             full == IF u.full_name = NullStr THEN u.username ELSE u.full_name
             old == {x \in st.users : x.username = u.username}
             hist == [init |-> SrcProductCount(id), creates |-> 0, deletes |-> 0]
         IN IF old # {}
            THEN MigrateUsersLoop(ids \ {id},
                   [users |-> { IF x.username = u.username
                                THEN [x EXCEPT !.full_name = full,
                                               !.is_active = u.is_active,
                                               !.is_admin = u.is_admin,
                                               !.created_at = u.created_at,
                                               !.product_count = SrcProductCount(id)]
                                ELSE x : x \in st.users },
                    next |-> st.next,
                    hist |-> [x \in DOMAIN st.hist |->
                                IF x \in {o._id : o \in old} THEN hist ELSE st.hist[x]]])
            ELSE MigrateUsersLoop(ids \ {id},
                   [users |-> st.users \cup
                                {[_id |-> st.next, username |-> u.username,
                                  full_name |-> full,
                                  is_active |-> u.is_active, is_admin |-> u.is_admin,
                                  product_count |-> SrcProductCount(id),
                                  created_at |-> u.created_at,
                                  favorites |-> {}, favorite_count |-> 0]},
                    next |-> st.next + 1,
                    hist |-> (st.next :> hist) @@ st.hist])

Mongo_migrate_users ==
    LET st == MigrateUsersLoop(DOMAIN srcUsers,
                               [users |-> dUsers, next |-> dNextOid, hist |-> dHist])
    IN /\ st.next <= MaxOid + 1
       /\ dUsers' = st.users
       /\ dNextOid' = st.next
       /\ dHist' = st.hist
       /\ resp' = Resp("migrate_users", "ok")
       /\ UNCHANGED <<dProducts, dLiveViews, now, srcVars, dConversations, concVars, graphVars, mig>>

\* The document migrate_products builds for source product pid (created_at apart).
ProductDocOf(pid) ==
    LET p == srcProducts[pid]
        seller == srcUsers[p.seller_id]
    IN [legacy |-> pid, title |-> p.title, description |-> p.description,
        status |-> p.status,
        seller |-> [id |-> DecStr(p.seller_id), username |-> seller.username],
        category |-> IF p.category_id \in DOMAIN SrcCategories
                     THEN SrcCategories[p.category_id].name ELSE NullStr,
        view_count |-> p.views_count, favorite_count |-> p.likes_count,
        recent_views |-> ViewsEmb(pid)]

\* update_one({"legacy_mysql_id": pid}, {"$set": set_doc, "$setOnInsert": created_at}):
\* set_doc holds the fields of doc that are not None.
SetDoc(old, doc) ==
    [old EXCEPT !.legacy = doc.legacy, !.title = doc.title,
                !.description = IF doc.description = NullStr THEN @ ELSE doc.description,
                !.status = doc.status, !.seller = doc.seller,
                !.category = IF doc.category = NullStr THEN @ ELSE doc.category,
                !.view_count = doc.view_count, !.favorite_count = doc.favorite_count,
                !.recent_views = doc.recent_views]

\* migrate_products: a product whose seller row is missing is skipped.
RECURSIVE MigrateProductsLoop(_, _)
MigrateProductsLoop(ids, st) ==
    IF ids = {} THEN st
    ELSE LET id == SetMin(ids)
             rest == ids \ {id}
         IN IF srcProducts[id].seller_id \notin DOMAIN srcUsers
            THEN MigrateProductsLoop(rest, st)
            ELSE LET doc == ProductDocOf(id)
                     old == {d \in st.products : d.legacy = id}
                     blank == [_id |-> st.next, legacy |-> id, title |-> NullStr,
                               description |-> NullStr, status |-> NullStr,
                               seller |-> doc.seller, category |-> NullStr,
                               view_count |-> 0, favorite_count |-> 0,
                               recent_views |-> <<>>,
                               created_at |-> srcProducts[id].created_at]
                 IN IF old # {}
                    THEN MigrateProductsLoop(rest,
                           [products |-> { IF d.legacy = id THEN SetDoc(d, doc) ELSE d
                                           : d \in st.products },
                            next |-> st.next, views |-> st.views])
                    ELSE MigrateProductsLoop(rest,
                           [products |-> st.products \cup {SetDoc(blank, doc)},
                            next |-> st.next + 1,
                            views |-> (st.next :> 0) @@ st.views])

\* count: incremented once per product that was upserted, after the seller test.
RECURSIVE MigrateProductsCount(_)
MigrateProductsCount(ids) ==
    IF ids = {} THEN 0
    ELSE LET id == SetMin(ids)
         IN (IF srcProducts[id].seller_id \notin DOMAIN srcUsers THEN 0 ELSE 1)
            + MigrateProductsCount(ids \ {id})

Mongo_migrate_products ==
    LET st == MigrateProductsLoop(DOMAIN srcProducts,
                 [products |-> dProducts, next |-> dNextOid, views |-> dLiveViews])
    IN /\ st.next <= MaxOid + 1
       /\ dProducts' = st.products
       /\ dNextOid' = st.next
       /\ dLiveViews' = st.views
       /\ resp' = [Resp("migrate_products", "ok") EXCEPT
                     !.out = <<MigrateProductsCount(DOMAIN srcProducts)>>]
       /\ UNCHANGED <<dUsers, dHist, now, srcVars, dConversations, concVars, graphVars, mig>>

\* ORDER BY created_at over a set of rows.
RECURSIVE OrderByCreatedAt(_)
OrderByCreatedAt(rows) ==
    IF rows = {} THEN <<>>
    ELSE LET first == CHOOSE r \in rows : \A q \in rows :
                          r.created_at < q.created_at
                          \/ (r.created_at = q.created_at /\ r.id <= q.id)
         IN <<first>> \o OrderByCreatedAt(rows \ {first})

\* The participant rows of a conversation, in key order.
RECURSIVE ParticipantRows(_)
ParticipantRows(rows) ==
    IF rows = {} THEN <<>>
    ELSE LET first == CHOOSE r \in rows : \A q \in rows : r.user_id <= q.user_id
         IN <<first>> \o ParticipantRows(rows \ {first})

\* participants_list: a participant is listed only when its user row exists.
RECURSIVE ParticipantsList(_)
ParticipantsList(rows) ==
    IF rows = <<>> THEN <<>>
    ELSE (IF Head(rows).user_id \in DOMAIN srcUsers
          THEN <<[user_id |-> DecStr(Head(rows).user_id),
                  username |-> srcUsers[Head(rows).user_id].username]>>
          ELSE <<>>) \o ParticipantsList(Tail(rows))

\* messages_emb: a message is embedded only when its sender row exists.
RECURSIVE MessagesEmb(_)
MessagesEmb(msgs) ==
    IF msgs = <<>> THEN <<>>
    ELSE (IF Head(msgs).sender_id \in DOMAIN srcUsers
          THEN <<[sender_id |-> DecStr(Head(msgs).sender_id),
                  sender_username |-> srcUsers[Head(msgs).sender_id].username,
                  body |-> Head(msgs).body, created_at |-> Head(msgs).created_at]>>
          ELSE <<>>) \o MessagesEmb(Tail(msgs))

\* The document migrate_conversations builds for source conversation cid.
ConversationDocOf(cid) ==
    LET conv == SrcConversations[cid]
        participants_data == {r \in SrcParticipants : r.conversation_id = cid}
        messages_emb == MessagesEmb(OrderByCreatedAt(
                            {m \in SrcMessages : m.conversation_id = cid}))
    IN [legacy |-> cid,
        participants |-> ParticipantsList(ParticipantRows(participants_data)),
        product_id |-> IF conv.product_id # 0 THEN DecStr(conv.product_id) ELSE NoId,
        messages |-> messages_emb,
        message_count |-> Len(messages_emb),
        last_message_at |-> IF messages_emb # <<>>
                            THEN messages_emb[Len(messages_emb)].created_at
                            ELSE NullInt,
        created_at |-> conv.created_at]

\* migrate_conversations: a conversation with fewer than two participant rows is
\* skipped; the others are upserted by legacy_mysql_id with every field in $set.
Mongo_migrate_conversations ==
    LET kept == { cid \in DOMAIN SrcConversations :
                    Cardinality({r \in SrcParticipants : r.conversation_id = cid}) >= 2 }
    IN /\ dConversations' = {c \in dConversations : c.legacy \notin kept}
                            \cup {ConversationDocOf(cid) : cid \in kept}
       /\ resp' = Resp("migrate_conversations", "ok")
       /\ UNCHANGED <<now, srcVars, docVars, graphVars, mig, concVars>>

\* The favorites of one user as migrate_favorites embeds them.
FavoritesEmb(user_id) ==
    { [product_id |-> DecStr(f.product_id), created_at |-> f.created_at]
      : f \in {g \in srcFavorites : g.user_id = user_id} }

\* The keys of user_favorites: the users that own a favorites row.
FavoriteOwners == {f.user_id : f \in srcFavorites}

\* migrate_favorites: for every owner whose user row exists, an update_one by
\* username that sets favorites and favorite_count (no upsert).
Mongo_migrate_favorites ==
    /\ dUsers' = { LET ids == { id \in FavoriteOwners \cap DOMAIN srcUsers :
                                  srcUsers[id].username = x.username }
                   IN IF ids = {} THEN x
                      ELSE LET id == CHOOSE i \in ids : TRUE
                           IN [x EXCEPT !.favorites = FavoritesEmb(id),
                                        !.favorite_count = Cardinality(FavoritesEmb(id))]
                   : x \in dUsers }
    /\ resp' = Resp("migrate_favorites", "ok")
    /\ UNCHANGED <<dProducts, dNextOid, dHist, dLiveViews>>
    /\ UNCHANGED <<now, srcVars, dConversations, graphVars, mig, concVars>>

\* The relational application changes a user row between two runs.
Src_update_user(id, created_at) ==
    /\ srcUsers[id].created_at # created_at
    /\ srcUsers' = [srcUsers EXCEPT ![id].created_at = created_at]
    /\ resp' = Resp("src_update_user", "ok")
    /\ UNCHANGED <<srcProducts, srcFavorites>>
    /\ UNCHANGED <<now, docVars, dConversations, graphVars, mig, concVars>>

\* The relational application changes a product row between two runs: the
\* description or the category is cleared, or created_at is rewritten.
Src_update_product(id, column) ==
    /\ srcProducts' =
         [srcProducts EXCEPT ![id] =
            IF column = "description" THEN [@ EXCEPT !.description = NullStr]
            ELSE IF column = "category_id" THEN [@ EXCEPT !.category_id = 0]
            ELSE [@ EXCEPT !.created_at = 0]]
    /\ srcProducts' # srcProducts
    /\ resp' = Resp("src_update_product", "ok")
    /\ UNCHANGED <<srcUsers, srcFavorites>>
    /\ UNCHANGED <<now, docVars, dConversations, graphVars, mig, concVars>>

\* The relational application deletes a favorites row between two runs.
Src_delete_favorite(row) ==
    /\ row \in srcFavorites
    /\ srcFavorites' = srcFavorites \ {row}
    /\ resp' = Resp("src_delete_favorite", "ok")
    /\ UNCHANGED <<srcUsers, srcProducts>>
    /\ UNCHANGED <<now, docVars, dConversations, graphVars, mig, concVars>>

\* The clock advances between requests.
Tick ==
    /\ now < MaxTime
    /\ now' = now + 1
    /\ resp' = Resp("tick", "none")
    /\ UNCHANGED <<srcVars, dConversations, concVars, docVars, graphVars, mig>>

----------------------------------------------------------------------------
(* Requests *)

Usernames == {"alice", "bob"}

\* Id strings a caller of the document store passes: the ObjectId strings handed
\* out so far, one never handed out, the decimal string of a relational key, none.
DocIdStrings == {OidStr(n) : n \in 1..(MaxOid + 1)} \cup {DecStr(1)}

\* The request handlers that can be in flight at once; one at rest has read nothing.
Procs == 1..MaxProcs

Idle == [pc |-> "idle", arg |-> NoId, seen |-> <<>>]

\* Both stores empty, no request in flight.
InitStores ==
    /\ now = 0
    /\ resp = NoResp
    /\ srcUsers = SrcUsersInit
    /\ srcProducts = SrcProductsInit
    /\ srcFavorites = SrcFavoritesInit
    /\ dUsers = {}
    /\ dProducts = {}
    /\ dConversations = {}
    /\ dNextOid = 1
    /\ dHist = <<>>
    /\ dLiveViews = <<>>
    /\ gUsers = {}
    /\ gProducts = {}
    /\ gCategories = {}
    /\ gLocations = {}
    /\ gEdges = {}
    /\ gNextId = 1
    /\ gNextUuid = 1
    /\ mig = [users |-> 0, products |-> 0, snap |-> <<>>]
    /\ procs = [p \in Procs |-> Idle]
    /\ gHist = <<>>

\* The lifespan handler has yielded: the locals of init_neo4j are gone.
Serving == [pc |-> "serving", attempts |-> 0, last_exc |-> <<>>, slept |-> 0]

\* The application after a startup in which init_neo4j created the constraints.
Init == InitStores /\ gConstraint = TRUE /\ startup = Serving

NextDoc ==
    \/ \E u \in Usernames : Mongo_create_user(u)
    \/ \E s \in DocIdStrings, c \in {NoId, OidStr(1), DecStr(1)} : Mongo_create(s, c)
    \/ \E p \in DocIdStrings : LiveViewTotal < MaxDocViews /\ Mongo_get_product(p)
    \/ \E p \in DocIdStrings : Mongo_delete(p)
    \/ Mongo_migrate_users
    \/ Mongo_migrate_products

SpecDoc == Init /\ [][NextDoc]_vars

\* The ids the counter methods are called with: two handed out, one not valid.
CounterIdStrings == {OidStr(1), OidStr(2), DecStr(1)}

\* Every document-store operation that writes a counter, the counter methods
\* of both repositories called as they stand.
NextDocCounters ==
    \/ Mongo_create_user("alice")
    \/ Mongo_migrate_users
    \/ Mongo_migrate_products
    \/ \E s \in CounterIdStrings : dNextOid <= 2 /\ Mongo_create(s, NoId)
    \/ \E p \in CounterIdStrings : LiveViewTotal < MaxDocViews /\ Mongo_get_product(p)
    \/ \E p \in CounterIdStrings : Mongo_delete(p)
    \/ \E p \in CounterIdStrings :
         /\ \A d \in Mongo_get_by_id(p) : d.favorite_count < MaxCounter
         /\ Mongo_increment_favorite_count(p)
    \/ \E p \in CounterIdStrings :
         /\ \A d \in Mongo_get_by_id(p) : d.favorite_count > -MaxCounter
         /\ Mongo_decrement_favorite_count(p)
    \/ \E u \in CounterIdStrings :
         /\ \A d \in dUsers : d.product_count <= MaxCounter
         /\ Mongo_increment_product_count(u)
    \/ \E u \in CounterIdStrings :
         /\ \A d \in dUsers : d.product_count > -MaxCounter
         /\ Mongo_decrement_product_count(u)

SpecDocCounters == Init /\ [][NextDocCounters]_vars

\* The passes of the document migration, run again and again over a source
\* whose rows change in between.
NextDocMig ==
    \/ Mongo_migrate_users
    \/ Mongo_migrate_products
    \/ Mongo_migrate_conversations
    \/ Mongo_migrate_favorites
    \/ \E t \in 0..MaxTime : Src_update_user(1, t)
    \/ \E column \in {"description", "category_id", "created_at"} :
         Src_update_product(1, column)
    \/ \E row \in {f \in SrcFavoritesInit : f.created_at = 1} : Src_delete_favorite(row)

SpecDocMig == Init /\ [][NextDocMig]_vars

----------------------------------------------------------------------------
(* Graph store: values *)

\* datetime.isoformat() of a UTC time, as character codes. A tick is half a
\* second: "S+" on a whole second (the fraction is left out when it is zero),
\* "S.5+" otherwise ('+' is 43, '.' is 46, '0' is 48).
IsoFormat(t) ==
    <<48 + (t \div 2)>> \o (IF t % 2 = 0 THEN <<>> ELSE <<46, 53>>) \o <<43>>

NoProp == <<>>        \* a property the node or relationship does not have

\* Cypher's order on strings: by character, a proper prefix first.
RECURSIVE StrLess(_, _)
StrLess(a, b) ==
    IF a = <<>> THEN b # <<>>
    ELSE IF b = <<>> THEN FALSE
    ELSE IF Head(a) # Head(b) THEN Head(a) < Head(b)
    ELSE StrLess(Tail(a), Tail(b))

UserNodes(username) == {u \in gUsers : u.username = username}
ProductNodes(id) == {p \in gProducts : p.id = id}

Interacted == {"FAVORITED", "VIEWED"}

\* MERGE (u:User {username: $username}): the matching nodes, or a new one.
MergeUser(users, username, nid) ==
    IF \E u \in users : u.username = username THEN users
    ELSE users \cup {[nid |-> nid, username |-> username, email |-> NullStr,
                      full_name |-> NullStr, is_active |-> NullStr]}

\* MERGE (a)-[:TYPE {at: $at}]->(b): a relationship with these properties, once.
MergeEdge(edges, type, src, dst, at) ==
    edges \cup {[type |-> type, src |-> src, dst |-> dst, at |-> at,
                 viewed_at |-> NoProp]}

\* Interactions recorded so far (each raises one counter by one).
RECURSIVE SumCounters(_)
SumCounters(S) ==
    IF S = {} THEN 0
    ELSE LET p == CHOOSE x \in S : TRUE
         IN p.view_count + p.favorite_count + SumCounters(S \ {p})

----------------------------------------------------------------------------
(* Graph store: Neo4jProductRepository, Neo4jUserRepository, products router *)

\* Neo4jUserRepository.create
Neo_create_user(username) ==
    /\ gUsers' = MergeUser(gUsers, username, gNextId)
    /\ gNextId' = IF gUsers' = gUsers THEN gNextId ELSE gNextId + 1
    /\ resp' = Resp("create_user", "201")
    /\ UNCHANGED <<gProducts, gCategories, gLocations, gEdges, gNextUuid>>
    /\ UNCHANGED <<now, srcVars, dConversations, concVars, docVars, mig>>

\* Neo4jProductRepository.create behind POST /neo4j/products
Neo_create(title, seller_username) ==
    LET users == MergeUser(gUsers, seller_username, gNextId)
        nid == IF users = gUsers THEN gNextId ELSE gNextId + 1
        p == [nid |-> nid, id |-> UuidStr(gNextUuid), title |-> title,
              description |-> NullStr, price_amount |-> 100, status |-> "active",
              view_count |-> 0, favorite_count |-> 0,
              created_at |-> IsoFormat(now), updated_at |-> NoProp]
    IN /\ gUsers' = users
       /\ gProducts' = gProducts \cup {p}
       /\ gEdges' = UNION { MergeEdge(gEdges, "CREATED", u.nid, nid, IsoFormat(now))
                            : u \in {x \in users : x.username = seller_username} }
       /\ gNextId' = nid + 1
       /\ gNextUuid' = gNextUuid + 1
       /\ resp' = Resp("create", "201")
       /\ UNCHANGED <<gCategories, gLocations>>
       /\ UNCHANGED <<now, srcVars, dConversations, concVars, docVars, mig>>

\* Neo4jProductRepository.get_by_id
Neo_get_by_id(product_id) == ProductNodes(product_id)

\* add_favorite / add_view: MATCH (u:User), (p:Product) MERGE (u)-[:TYPE {at: $now}]->(p)
\* SET p.<counter> = coalesce(p.<counter>, 0) + 1. No row, no write.
AddInteraction(type, username, product_id) ==
    LET us == UserNodes(username)
        ps == ProductNodes(product_id)
        hit == us # {} /\ ps # {}
    IN [ok |-> hit,
        edges |-> IF hit
                  THEN gEdges \cup UNION { MergeEdge({}, type, u.nid, p.nid, IsoFormat(now))
                                           : u \in us, p \in ps }
                  ELSE gEdges,
        products |-> IF hit
                     THEN { IF p.id = product_id
                            THEN IF type = "FAVORITED"
                                 THEN [p EXCEPT !.favorite_count = @ + 1]
                                 ELSE [p EXCEPT !.view_count = @ + 1]
                            ELSE p : p \in gProducts }
                     ELSE gProducts]

\* History: one more delta applied to a counter of the product, when the
\* statement matched.
Applied(hist, ok, product_id, counter) ==
    IF ~ok THEN hist
    ELSE IF product_id \in DOMAIN hist
    THEN [hist EXCEPT ![product_id][counter] = @ + 1]
    ELSE (product_id :> [[view_count |-> 0, favorite_count |-> 0, toggles |-> 0]
                          EXCEPT ![counter] = 1]) @@ hist

\* Neo4jProductRepository.add_favorite behind POST /{product_id}/favorite
Neo_add_favorite(username, product_id) ==
    LET r == AddInteraction("FAVORITED", username, product_id)
    IN /\ gEdges' = r.edges
       /\ gProducts' = r.products
       /\ gHist' = Applied(gHist, r.ok, product_id, "favorite_count")
       /\ resp' = Resp("add_favorite", IF r.ok THEN "204" ELSE "400")
       /\ UNCHANGED <<gUsers, gCategories, gLocations, gNextId, gNextUuid>>
       /\ UNCHANGED <<now, srcVars, dConversations, procs, gConstraint, startup, docVars, mig>>

\* Neo4jProductRepository.add_view
Neo_add_view(username, product_id) == AddInteraction("VIEWED", username, product_id)

\* GET /neo4j/products/{product_id}: 404, or a view recorded for the principal.
Neo_get_product(product_id, principal) ==
    /\ IF Neo_get_by_id(product_id) = {}
       THEN /\ resp' = Resp("get_product", "404")
            /\ UNCHANGED <<gEdges, gProducts, gHist>>
       ELSE LET r == Neo_add_view(principal, product_id)
            IN /\ gEdges' = r.edges
               /\ gProducts' = r.products
               /\ gHist' = Applied(gHist, r.ok, product_id, "view_count")
               /\ resp' = Resp("get_product", "200")
    /\ UNCHANGED <<gUsers, gCategories, gLocations, gNextId, gNextUuid>>
    /\ UNCHANGED <<now, srcVars, dConversations, procs, gConstraint, startup, docVars, mig>>

\* Neo4jProductRepository.track_view(product_id, viewer_username): NullStr is the
\* anonymous viewer.
Neo_track_view(product_id, viewer_username) ==
    /\ IF viewer_username # NullStr
       THEN LET r == Neo_add_view(viewer_username, product_id)
            IN /\ gEdges' = r.edges
               /\ gProducts' = r.products
               /\ gHist' = Applied(gHist, r.ok, product_id, "view_count")
               /\ resp' = Resp("track_view", IF r.ok THEN "true" ELSE "false")
       ELSE /\ gProducts' = { IF p.id = product_id
                              THEN [p EXCEPT !.view_count = @ + 1] ELSE p
                              : p \in gProducts }
            /\ gEdges' = gEdges
            /\ gHist' = Applied(gHist, ProductNodes(product_id) # {}, product_id,
                                "view_count")
            /\ resp' = Resp("track_view",
                            IF ProductNodes(product_id) # {} THEN "true" ELSE "false")
    /\ UNCHANGED <<gUsers, gCategories, gLocations, gNextId, gNextUuid>>
    /\ UNCHANGED <<now, srcVars, dConversations, procs, gConstraint, startup, docVars, mig>>

\* Mutant: the owner looked up over any relationship into the product.
Neo_get_seller_username_AnyEdge(product_id) ==
    LET rows == { u.username : u \in { x \in gUsers :
                    \E e \in gEdges, p \in ProductNodes(product_id) :
                        e.src = x.nid /\ e.dst = p.nid } }
    IN IF rows = {} THEN {NullStr} ELSE rows

\* Neo4jProductRepository.get_seller_username: what result.single() may return,
\* the username of a (u:User)-[:CREATED]->(p) row, or None (NullStr) without one.
Neo_get_seller_username(product_id) ==
    LET rows == { u.username : u \in { x \in gUsers :
                    \E e \in gEdges, p \in ProductNodes(product_id) :
                        e.type = "CREATED" /\ e.src = x.nid /\ e.dst = p.nid } }
    IN IF rows = {} THEN {NullStr} ELSE rows

\* Neo4jProductRepository.update: SET only the fields given, plus updated_at.
Neo_update(product_id, title, status) ==
    IF title = NullStr /\ status = NullStr THEN gProducts
    ELSE { IF p.id = product_id
           THEN [p EXCEPT !.title = IF title = NullStr THEN @ ELSE title,
                          !.status = IF status = NullStr THEN @ ELSE status,
                          !.updated_at = IsoFormat(now)]
           ELSE p : p \in gProducts }

\* Neo4jProductRepository.delete: DETACH DELETE
Neo_delete(product_id) ==
    [products |-> gProducts \ ProductNodes(product_id),
     edges |-> { e \in gEdges : \A p \in ProductNodes(product_id) :
                                    e.src # p.nid /\ e.dst # p.nid }]

\* Neo4jProductRepository.mark_as_sold
Neo_mark_as_sold(product_id) ==
    { IF p.id = product_id
      THEN [p EXCEPT !.status = "sold", !.updated_at = IsoFormat(now)]
      ELSE p : p \in gProducts }

\* Neo4jProductRepository.toggle_status: the new status it computes and writes.
NewStatus(current_status) == IF current_status = "active" THEN "paused" ELSE "active"

Neo_toggle_status(product_id) ==
    { IF p.id = product_id
      THEN [p EXCEPT !.status = NewStatus(p.status), !.updated_at = IsoFormat(now)]
      ELSE p : p \in gProducts }

\* PUT /neo4j/products/{product_id}
Neo_update_product(product_id, principal, title, status) ==
    /\ \E seller_username \in Neo_get_seller_username(product_id) :
         IF Neo_get_by_id(product_id) = {}
         THEN resp' = Resp("update_product", "404") /\ UNCHANGED gProducts
         ELSE IF seller_username # principal
         THEN resp' = Resp("update_product", "403") /\ UNCHANGED gProducts
         ELSE /\ gProducts' = Neo_update(product_id, title, status)
              /\ resp' = Resp("update_product", "200")
    /\ UNCHANGED <<gUsers, gCategories, gLocations, gEdges, gNextId, gNextUuid>>
    /\ UNCHANGED <<now, srcVars, dConversations, concVars, docVars, mig>>

\* DELETE /neo4j/products/{product_id}
Neo_delete_product(product_id, principal) ==
    /\ \E seller_username \in Neo_get_seller_username(product_id) :
         IF Neo_get_by_id(product_id) = {}
         THEN resp' = Resp("delete_product", "404") /\ UNCHANGED <<gProducts, gEdges>>
         ELSE IF seller_username # principal
         THEN resp' = Resp("delete_product", "403") /\ UNCHANGED <<gProducts, gEdges>>
         ELSE /\ gProducts' = Neo_delete(product_id).products
              /\ gEdges' = Neo_delete(product_id).edges
              /\ resp' = Resp("delete_product", "204")
    /\ UNCHANGED <<gUsers, gCategories, gLocations, gNextId, gNextUuid>>
    /\ UNCHANGED <<now, srcVars, dConversations, concVars, docVars, mig>>

\* PATCH /neo4j/products/{product_id}/mark-sold
Neo_mark_product_as_sold(product_id, principal) ==
    /\ \E seller_username \in Neo_get_seller_username(product_id) :
         IF Neo_get_by_id(product_id) = {}
         THEN resp' = Resp("mark_product_as_sold", "404") /\ UNCHANGED gProducts
         ELSE IF seller_username # principal
         THEN resp' = Resp("mark_product_as_sold", "403") /\ UNCHANGED gProducts
         ELSE /\ gProducts' = Neo_mark_as_sold(product_id)
              /\ resp' = Resp("mark_product_as_sold", "200")
    /\ UNCHANGED <<gUsers, gCategories, gLocations, gEdges, gNextId, gNextUuid>>
    /\ UNCHANGED <<now, srcVars, dConversations, concVars, docVars, mig>>

\* PATCH /neo4j/products/{product_id}/toggle-status
Neo_toggle_product_status(product_id, principal) ==
    /\ \E seller_username \in Neo_get_seller_username(product_id) :
         IF Neo_get_by_id(product_id) = {}
         THEN resp' = Resp("toggle_product_status", "404") /\ UNCHANGED gProducts
         ELSE IF seller_username # principal
         THEN resp' = Resp("toggle_product_status", "403") /\ UNCHANGED gProducts
         ELSE /\ gProducts' = Neo_toggle_status(product_id)
              /\ resp' = Resp("toggle_product_status", "200")
    /\ UNCHANGED <<gUsers, gCategories, gLocations, gEdges, gNextId, gNextUuid>>
    /\ UNCHANGED <<now, srcVars, dConversations, concVars, docVars, mig>>

----------------------------------------------------------------------------
(* Graph store: recommendations *)

\* MATCH (target:Product {id: $id})<-[:FAVORITED|:VIEWED]-(u:User)
\*       -[:FAVORITED|:VIEWED]->(other:Product) WHERE other.id <> $id
\* One row <<r1, r2>> per pair of distinct relationships of one user.
RecRows(product_id) ==
    LET targets == { t.nid : t \in ProductNodes(product_id) }
        users == { u.nid : u \in gUsers }
        others == { o.nid : o \in { x \in gProducts : x.id # product_id } }
        r1s == { e \in gEdges : e.type \in Interacted /\ e.dst \in targets
                                                       /\ e.src \in users }
        r2s == { e \in gEdges : e.type \in Interacted /\ e.dst \in others }
    IN { r \in r1s \X r2s : r[1] # r[2] /\ r[1].src = r[2].src }

\* Mutant: count(u), one per matched row.
RecScore_CountRows(product_id, other) ==
    Cardinality({ r \in RecRows(product_id) : r[2].dst = other.nid })

\* WITH other, count(DISTINCT u) AS score
RecScore(product_id, other) ==
    Cardinality({ r[1].src : r \in { x \in RecRows(product_id) : x[2].dst = other.nid } })

\* Mutant: ORDER BY score DESC, other.created_at (ascending).
RecBefore_CreatedAsc(product_id, a, b) ==
    \/ RecScore(product_id, a) > RecScore(product_id, b)
    \/ /\ RecScore(product_id, a) = RecScore(product_id, b)
       /\ StrLess(a.created_at, b.created_at)

\* ORDER BY score DESC, other.created_at DESC: a sorts strictly before b.
RecBefore(product_id, a, b) ==
    \/ RecScore(product_id, a) > RecScore(product_id, b)
    \/ /\ RecScore(product_id, a) = RecScore(product_id, b)
       /\ StrLess(b.created_at, a.created_at)

\* The sort: each row put behind the rows that do not sort after it.
RECURSIVE InsertSorted(_, _, _)
InsertSorted(product_id, sorted, x) ==
    IF sorted = <<>> THEN <<x>>
    ELSE IF RecBefore(product_id, x, Head(sorted))
    THEN <<x>> \o sorted
    ELSE <<Head(sorted)>> \o InsertSorted(product_id, Tail(sorted), x)

RECURSIVE OrderByScore(_, _)
OrderByScore(product_id, rows) ==
    IF rows = <<>> THEN <<>>
    ELSE InsertSorted(product_id,
                      OrderByScore(product_id, SubSeq(rows, 1, Len(rows) - 1)),
                      rows[Len(rows)])

\* The orders in which the engine may produce the grouped rows.
Scans(S) == { f \in [1..Cardinality(S) -> S] : \A i, j \in DOMAIN f : f[i] = f[j] => i = j }

\* Neo4jProductRepository.recommendations: the lists it may return.
Neo_recommendations(product_id, limit) ==
    { Limit(OrderByScore(product_id, scan), limit)
      : scan \in Scans({ o \in gProducts : /\ \E r \in RecRows(product_id) : r[2].dst = o.nid
                                           /\ RecScore(product_id, o) > 0 }) }

\* GET /neo4j/products/{product_id}/recommendations
Neo_recommend_products(product_id, limit) ==
    /\ IF Neo_get_by_id(product_id) = {}
       THEN resp' = Resp("recommend_products", "404")
       ELSE \E recs \in Neo_recommendations(product_id, limit) :
              resp' = [op |-> "recommend_products", status |-> "200",
                       out |-> [i \in 1..Len(recs) |-> recs[i].id],
                       score |-> [i \in 1..Len(recs) |-> RecScore(product_id, recs[i])]]
    /\ UNCHANGED <<now, srcVars, dConversations, concVars, docVars, graphVars, mig>>

----------------------------------------------------------------------------
(* Graph migration: scripts/migrate_to_neo4j.py *)

GraphOf == [users |-> gUsers, products |-> gProducts, categories |-> gCategories,
            locations |-> gLocations, edges |-> gEdges, next |-> gNextId]

\* bool(u.is_active) as a stored property
PropBool(b) == IF b THEN "true" ELSE "false"

HasLocation(row) == row.location_id # 0 /\ row.location_id \in DOMAIN SrcLocations
HasCategory(row) == row.category_id # 0 /\ row.category_id \in DOMAIN SrcCategories

\* MERGE (l:Location {postcode: $postcode, city: $city}) SET l.country = $country
MergeLocation(g, loc) ==
    IF \E l \in g.locations : l.postcode = loc.postcode /\ l.city = loc.city
    THEN [g EXCEPT !.locations =
            { IF l.postcode = loc.postcode /\ l.city = loc.city
              THEN [l EXCEPT !.country = "Denmark"] ELSE l : l \in @ }]
    ELSE [g EXCEPT !.locations = @ \cup {[nid |-> g.next, postcode |-> loc.postcode,
                                          city |-> loc.city, country |-> "Denmark"]},
                   !.next = @ + 1]

\* MERGE (c:Category {id: $id}) SET c.name = $name
MergeCategory(g, id, name) ==
    IF \E c \in g.categories : c.id = id
    THEN [g EXCEPT !.categories =
            { IF c.id = id THEN [c EXCEPT !.name = name] ELSE c : c \in @ }]
    ELSE [g EXCEPT !.categories = @ \cup {[nid |-> g.next, id |-> id, name |-> name]},
                   !.next = @ + 1]

\* MERGE (u:User {username: $username}) inside a migration query
MergeUserNode(g, username) ==
    IF \E u \in g.users : u.username = username THEN g
    ELSE [g EXCEPT !.users = MergeUser(@, username, g.next), !.next = @ + 1]

\* A Product node with its key only.
KeyedProduct(nid, id) ==
    [nid |-> nid, id |-> id, title |-> NullStr, description |-> NullStr,
     price_amount |-> NullInt, status |-> NullStr, view_count |-> NullInt,
     favorite_count |-> NullInt, created_at |-> NoProp, updated_at |-> NoProp]

\* Mutant: CREATE (p:Product {id: $id}) in place of the MERGE.
MergeProductNode_Create(g, id) ==
    [g EXCEPT !.products = @ \cup {KeyedProduct(g.next, id)}, !.next = @ + 1]

\* MERGE (p:Product {id: $id})
MergeProductNode(g, id) ==
    IF \E p \in g.products : p.id = id THEN g
    ELSE [g EXCEPT !.products = @ \cup {KeyedProduct(g.next, id)}, !.next = @ + 1]

\* MERGE (a)-[:TYPE]->(b) for every bound pair: kept if one exists, whatever
\* its properties.
MergeRel(edges, type, srcs, dsts) ==
    edges \cup { [type |-> type, src |-> x[1], dst |-> x[2], at |-> NoProp,
                  viewed_at |-> NoProp]
                 : x \in { y \in srcs \X dsts :
                            ~ \E e \in edges : e.type = type /\ e.src = y[1]
                                                             /\ e.dst = y[2] } }

LocationNids(g, loc) ==
    { l.nid : l \in { x \in g.locations : x.postcode = loc.postcode /\ x.city = loc.city } }

\* migrate_users, one source row
MigrateUser(g, u) ==
    LET g1 == IF HasLocation(u) THEN MergeLocation(g, SrcLocations[u.location_id]) ELSE g
        g2 == MergeUserNode(g1, u.username)
        g3 == [g2 EXCEPT !.users =
                 { IF x.username = u.username
                   THEN [x EXCEPT !.email = u.email,
                                  !.full_name = IF u.full_name = NullStr
                                                THEN u.username ELSE u.full_name,
                                  !.is_active = PropBool(u.is_active)]
                   ELSE x : x \in @ }]
    IN IF HasLocation(u)
       THEN [g3 EXCEPT !.edges =
               MergeRel(@, "LIVES_IN",
                        { x.nid : x \in { y \in g3.users : y.username = u.username } },
                        LocationNids(g3, SrcLocations[u.location_id]))]
       ELSE g3

RECURSIVE GraphMigrateUsersLoop(_, _)
GraphMigrateUsersLoop(ids, g) ==
    IF ids = {} THEN g
    ELSE GraphMigrateUsersLoop(ids \ {SetMin(ids)}, MigrateUser(g, srcUsers[SetMin(ids)]))

\* migrate_products, one source row: a product whose seller row is missing is
\* skipped.
MigrateProduct(g, pid) ==
    LET p == srcProducts[pid]
        id == DecStr(pid)
        g1 == IF HasCategory(p)
              THEN MergeCategory(g, DecStr(p.category_id), SrcCategories[p.category_id].name)
              ELSE g
        g2 == IF HasLocation(p) THEN MergeLocation(g1, SrcLocations[p.location_id]) ELSE g1
        g3 == MergeUserNode(g2, srcUsers[p.seller_id].username)
        g4 == MergeProductNode(g3, id)
        g5 == [g4 EXCEPT !.products =
                 { IF x.id = id
                   THEN [x EXCEPT !.title = p.title, !.description = p.description,
                                  !.price_amount = p.price_amount, !.status = p.status,
                                  !.view_count = p.views_count,
                                  !.favorite_count = p.likes_count,
                                  !.created_at = IsoFormat(p.created_at)]
                   ELSE x : x \in @ }]
        pnids == { x.nid : x \in { y \in g5.products : y.id = id } }
        e1 == MergeRel(g5.edges, "CREATED",
                       { x.nid : x \in { y \in g5.users :
                                          y.username = srcUsers[p.seller_id].username } },
                       pnids)
        e2 == IF HasCategory(p)
              THEN MergeRel(e1, "IN_CATEGORY", pnids,
                            { c.nid : c \in { y \in g5.categories :
                                               y.id = DecStr(p.category_id) } })
              ELSE e1
        e3 == IF HasLocation(p)
              THEN MergeRel(e2, "LOCATED_IN", pnids,
                            LocationNids(g5, SrcLocations[p.location_id]))
              ELSE e2
    IN IF p.seller_id \notin DOMAIN srcUsers THEN g
       ELSE [g5 EXCEPT !.edges = e3]

RECURSIVE GraphMigrateProductsLoop(_, _)
GraphMigrateProductsLoop(ids, g) ==
    IF ids = {} THEN g
    ELSE GraphMigrateProductsLoop(ids \ {SetMin(ids)}, MigrateProduct(g, SetMin(ids)))

\* The passes run in a row: counted on from a graph left as the last pass left it.
MigAfter(pass, graph) ==
    LET clean == graphVars = mig.snap
        users == IF clean THEN mig.users ELSE 0
        products == IF clean THEN mig.products ELSE 0
    IN [users |-> IF pass = "users" THEN Min(users + 1, MaxMigRuns) ELSE users,
        products |-> IF pass = "products" THEN Min(products + 1, MaxMigRuns) ELSE products,
        snap |-> graph]

Neo_migrate_users ==
    LET g == GraphMigrateUsersLoop(DOMAIN srcUsers, GraphOf)
    IN /\ gUsers' = g.users /\ gProducts' = g.products /\ gCategories' = g.categories
       /\ gLocations' = g.locations /\ gEdges' = g.edges /\ gNextId' = g.next
       /\ gNextUuid' = gNextUuid
       /\ mig' = MigAfter("users", graphVars')
       /\ resp' = Resp("graph_migrate_users", "ok")
       /\ UNCHANGED <<now, srcVars, dConversations, concVars, docVars>>

\* count: incremented once per product whose statement ran, after the seller test.
RECURSIVE GraphMigrateProductsCount(_)
GraphMigrateProductsCount(ids) ==
    IF ids = {} THEN 0
    ELSE LET id == SetMin(ids)
         IN (IF srcProducts[id].seller_id \notin DOMAIN srcUsers THEN 0 ELSE 1)
            + GraphMigrateProductsCount(ids \ {id})

Neo_migrate_products ==
    LET g == GraphMigrateProductsLoop(DOMAIN srcProducts, GraphOf)
    IN /\ gUsers' = g.users /\ gProducts' = g.products /\ gCategories' = g.categories
       /\ gLocations' = g.locations /\ gEdges' = g.edges /\ gNextId' = g.next
       /\ gNextUuid' = gNextUuid
       /\ mig' = MigAfter("products", graphVars')
       /\ resp' = [Resp("graph_migrate_products", "ok") EXCEPT
                     !.out = <<GraphMigrateProductsCount(DOMAIN srcProducts)>>]
       /\ UNCHANGED <<now, srcVars, dConversations, concVars, docVars>>

\* migrate_favorites: MERGE (u)-[:FAVORITED]->(p) for every favorites row whose
\* user and product rows exist and whose nodes are matched.
Neo_migrate_favorites ==
    LET pairs == UNION { { <<u.nid, p.nid>> :
                             u \in UserNodes(srcUsers[f.user_id].username),
                             p \in ProductNodes(DecStr(f.product_id)) }
                         : f \in { g \in srcFavorites :
                                     /\ g.user_id \in DOMAIN srcUsers
                                     /\ g.product_id \in DOMAIN srcProducts } }
    IN /\ gEdges' = gEdges \cup UNION { MergeRel(gEdges, "FAVORITED", {x[1]}, {x[2]})
                                        : x \in pairs }
       /\ resp' = Resp("graph_migrate_favorites", "ok")
       /\ UNCHANGED <<gUsers, gProducts, gCategories, gLocations, gNextId, gNextUuid>>
       /\ UNCHANGED <<now, srcVars, dConversations, concVars, docVars, mig>>

\* The item_views rows migrate_item_views reads: those of logged-in viewers,
\* newest first, at most ItemViewsLimit of them. viewer_user_id 0 is NULL.
MigratedViews ==
    Limit(OrderByViewedAtDesc({v \in SrcItemViews : v.viewer_user_id # 0}),
          ItemViewsLimit)

\* The loop of migrate_item_views: per row, MATCH the two nodes, MERGE
\* (u)-[r:VIEWED]->(p) and SET r.viewed_at on every relationship matched.
RECURSIVE MigrateViewsLoop(_, _)
MigrateViewsLoop(views, edges) ==
    IF views = <<>> THEN edges
    ELSE LET view == Head(views)
         IN IF \/ view.viewer_user_id \notin DOMAIN srcUsers
               \/ view.product_id \notin DOMAIN srcProducts
            THEN MigrateViewsLoop(Tail(views), edges)
            ELSE LET us == {u.nid : u \in UserNodes(srcUsers[view.viewer_user_id].username)}
                     ps == {q.nid : q \in ProductNodes(DecStr(view.product_id))}
                 IN MigrateViewsLoop(Tail(views),
                      { IF e.type = "VIEWED" /\ e.src \in us /\ e.dst \in ps
                        THEN [e EXCEPT !.viewed_at = IsoFormat(view.viewed_at)]
                        ELSE e : e \in MergeRel(edges, "VIEWED", us, ps) })

Neo_migrate_item_views ==
    /\ gEdges' = MigrateViewsLoop(MigratedViews, gEdges)
    /\ resp' = Resp("graph_migrate_item_views", "ok")
    /\ UNCHANGED <<gUsers, gProducts, gCategories, gLocations, gNextId, gNextUuid>>
    /\ UNCHANGED <<now, srcVars, dConversations, concVars, docVars, mig>>

\* users of migrate_messages: the user rows of a conversation's participants,
\* those that exist, in key order.
RECURSIVE ConversationUsers(_)
ConversationUsers(rows) ==
    IF rows = <<>> THEN <<>>
    ELSE (IF Head(rows).user_id \in DOMAIN srcUsers
          THEN <<Head(rows).user_id>> ELSE <<>>) \o ConversationUsers(Tail(rows))

\* MATCH (u1), (u2) MERGE (u1)-[r1:MESSAGED]->(u2) MERGE (u2)-[r2:MESSAGED]->(u1)
\* SET message_count and last_message_at on both.
MergeMessaged(g, user1, user2, message_count, created_at) ==
    LET n1 == {u.nid : u \in {x \in g.users : x.username = user1}}
        n2 == {u.nid : u \in {x \in g.users : x.username = user2}}
        pairs == (n1 \X n2) \cup (n2 \X n1)
    IN [g EXCEPT !.edges =
          {e \in @ : ~(e.type = "MESSAGED" /\ <<e.src, e.dst>> \in pairs)}
          \cup { [type |-> "MESSAGED", src |-> x[1], dst |-> x[2], at |-> NoProp,
                  viewed_at |-> NoProp, message_count |-> message_count,
                  last_message_at |-> created_at] : x \in pairs }]

\* for i in range(len(users)): for j in range(i + 1, len(users))
RECURSIVE MessagedPairs(_, _, _, _, _)
MessagedPairs(g, users, i, j, conv) ==
    IF i > Len(users) THEN g
    ELSE IF j > Len(users) THEN MessagedPairs(g, users, i + 1, i + 2, conv)
    ELSE MessagedPairs(
           MergeMessaged(g, srcUsers[users[i]].username, srcUsers[users[j]].username,
                         Cardinality({m \in SrcMessages : m.conversation_id = conv}),
                         IsoFormat(SrcConversations[conv].created_at)),
           users, i, j + 1, conv)

\* The loop of migrate_messages: a conversation with fewer than two participant
\* rows, or fewer than two existing users, is skipped.
RECURSIVE MigrateMessagesLoop(_, _)
MigrateMessagesLoop(ids, g) ==
    IF ids = {} THEN g
    ELSE LET conv == SetMin(ids)
             participants_data == {r \in SrcParticipants : r.conversation_id = conv}
             users == ConversationUsers(ParticipantRows(participants_data))
         IN IF Cardinality(participants_data) < 2 \/ Len(users) < 2
            THEN MigrateMessagesLoop(ids \ {conv}, g)
            ELSE MigrateMessagesLoop(ids \ {conv}, MessagedPairs(g, users, 1, 2, conv))

Neo_migrate_messages ==
    /\ gEdges' = MigrateMessagesLoop(DOMAIN SrcConversations, GraphOf).edges
    /\ resp' = Resp("graph_migrate_messages", "ok")
    /\ UNCHANGED <<gUsers, gProducts, gCategories, gLocations, gNextId, gNextUuid>>
    /\ UNCHANGED <<now, srcVars, dConversations, concVars, docVars, mig>>

\* Mutant: the pair filter dropped, so a product is paired with itself too.
IdStrLess_Any(a, b) == TRUE

\* p1.id < p2.id on id strings: decimal keys of one digit order as their
\* digits and sort before uuid strings, which order among themselves.
IdStrLess(a, b) ==
    IF a[1] = b[1] THEN a[2] < b[2] ELSE a[1] = "dec"

\* MERGE (p1)-[r:TYPE]-(p2) SET r.<property> = value, row by row: a relationship
\* in either direction is matched, else one is created from p1 to p2.
RECURSIVE MergeUndirected(_, _, _, _)
MergeUndirected(edges, type, rows, property) ==
    IF rows = {} THEN edges
    ELSE LET row == CHOOSE r \in rows : TRUE
             matched == { e \in edges :
                            /\ e.type = type
                            /\ \/ (e.src = row.p1 /\ e.dst = row.p2)
                               \/ (e.src = row.p2 /\ e.dst = row.p1) }
             fresh == [type |-> type, src |-> row.p1, dst |-> row.p2, at |-> NoProp,
                       viewed_at |-> NoProp, reason |-> NoProp,
                       shared_favorite_count |-> NullInt]
             merged == IF matched = {} THEN {fresh} ELSE matched
         IN MergeUndirected((edges \ matched)
                              \cup { [e EXCEPT ![property] = row.value] : e \in merged },
                            type, rows \ {row}, property)

\* MATCH (p1:Product)-[:IN_CATEGORY]->(c:Category)<-[:IN_CATEGORY]-(p2:Product)
\* WHERE p1.id < p2.id: one row per (p1, c, p2).
SameCategoryRows ==
    { [p1 |-> x[1].nid, p2 |-> x[2].nid, c |-> x[3].nid, value |-> "same_category"]
      : x \in { y \in gProducts \X gProducts \X gCategories :
                  /\ IdStrLess(y[1].id, y[2].id)
                  /\ \E e \in gEdges : e.type = "IN_CATEGORY" /\ e.src = y[1].nid
                                                              /\ e.dst = y[3].nid
                  /\ \E e \in gEdges : e.type = "IN_CATEGORY" /\ e.src = y[2].nid
                                                              /\ e.dst = y[3].nid } }

\* MATCH (u)-[:FAVORITED]->(p1) MATCH (u)-[:FAVORITED]->(p2) WHERE p1.id < p2.id:
\* one row per pair of FAVORITED relationships of one user.
SharedFavoriteRows ==
    { x \in gEdges \X gEdges :
        /\ x[1].type = "FAVORITED" /\ x[2].type = "FAVORITED"
        /\ x[1].src = x[2].src
        /\ x[1].src \in {u.nid : u \in gUsers}
        /\ \E p \in gProducts, q \in gProducts :
             p.nid = x[1].dst /\ q.nid = x[2].dst /\ IdStrLess(p.id, q.id) }

\* WITH p1, p2, count(u) AS shared_users WHERE shared_users >= 2
SharedFavoriteGroups ==
    { g \in { [p1 |-> x[1].dst, p2 |-> x[2].dst,
               value |-> Cardinality({ y \in SharedFavoriteRows :
                                         y[1].dst = x[1].dst /\ y[2].dst = x[2].dst })]
              : x \in SharedFavoriteRows } : g.value >= 2 }

\* create_recommendation_relationships: the SIMILAR_TO statement, then the
\* RELATED_TO statement; returns the two row counts added.
Neo_create_recommendation_relationships ==
    LET similar == MergeUndirected(gEdges, "SIMILAR_TO", SameCategoryRows, "reason")
    IN /\ gEdges' = MergeUndirected(similar, "RELATED_TO", SharedFavoriteGroups,
                                    "shared_favorite_count")
       /\ resp' = [Resp("graph_recommendation_relationships", "ok") EXCEPT
                     !.out = <<Cardinality(SameCategoryRows)
                               + Cardinality(SharedFavoriteGroups)>>]
       /\ UNCHANGED <<gUsers, gProducts, gCategories, gLocations, gNextId, gNextUuid>>
       /\ UNCHANGED <<now, srcVars, dConversations, concVars, docVars, mig>>

\* The relational application moves a product to another category between runs.
Src_recategorize(id, category_id) ==
    /\ srcProducts[id].category_id # category_id
    /\ srcProducts' = [srcProducts EXCEPT ![id].category_id = category_id]
    /\ resp' = Resp("src_recategorize", "ok")
    /\ UNCHANGED <<srcUsers, srcFavorites>>
    /\ UNCHANGED <<now, docVars, dConversations, graphVars, mig, concVars>>

\* The relational application hands a product over to another seller between runs.
Src_transfer_product(id, seller_id) ==
    /\ seller_id \in DOMAIN srcUsers
    /\ srcProducts[id].seller_id # seller_id
    /\ srcProducts' = [srcProducts EXCEPT ![id].seller_id = seller_id]
    /\ resp' = Resp("src_transfer_product", "ok")
    /\ UNCHANGED <<srcUsers, srcFavorites>>
    /\ UNCHANGED <<now, docVars, dConversations, graphVars, mig, concVars>>

----------------------------------------------------------------------------
(* Graph store: requests *)

\* alice and bob register, alice sells; carol holds a valid token but has no
\* User node.
Principals == {"alice", "bob", "carol"}
GraphIdStrings == {UuidStr(n) : n \in 1..MaxUuid}
RecIdStrings == {UuidStr(n) : n \in 1..MaxRecProducts}
RecTarget == UuidStr(1)     \* recommendations are asked for the first product
UpdateInputs == {<<NullStr, NullStr>>, <<"Desk", "draft">>}

Next ==
    \/ \E u \in Usernames : Neo_create_user(u)
    \/ gNextUuid <= MaxUuid /\ Neo_create("Lamp", "alice")
    \/ \E u \in Principals \cup {NullStr}, p \in GraphIdStrings :
         SumCounters(gProducts) < MaxInteractions /\ Neo_track_view(p, u)
    \/ \E u \in Principals, p \in GraphIdStrings, f \in UpdateInputs :
         Neo_update_product(p, u, f[1], f[2])
    \/ \E u \in Principals, p \in GraphIdStrings : Neo_delete_product(p, u)
    \/ \E u \in Principals, p \in GraphIdStrings : Neo_mark_product_as_sold(p, u)
    \/ \E u \in Principals, p \in GraphIdStrings : Neo_toggle_product_status(p, u)

Spec == Init /\ [][Next]_vars

MigIdStrings == {DecStr(n) : n \in DOMAIN srcProducts}

NextGraphMig ==
    \/ Neo_migrate_users
    \/ Neo_migrate_products
    \/ \E u \in Usernames : Neo_create_user(u)
    \/ \E u \in Usernames, p \in MigIdStrings : Neo_toggle_product_status(p, u)

SpecGraphMig == Init /\ [][NextGraphMig]_vars

LiveEdges == {e \in gEdges : e.at # NoProp}

\* The four passes of the graph migration, between live views and favourites
\* of migrated products.
NextGraphViews ==
    \/ Neo_migrate_users
    \/ Neo_migrate_products
    \/ Neo_migrate_favorites
    \/ Neo_migrate_item_views
    \/ \E u \in Usernames, p \in MigIdStrings :
         Cardinality(LiveEdges) < MaxLiveEdges /\ Neo_get_product(p, u)
    \/ \E u \in Usernames, p \in MigIdStrings :
         Cardinality(LiveEdges) < MaxLiveEdges /\ Neo_add_favorite(u, p)

SpecGraphViews == Init /\ [][NextGraphViews]_vars

\* The graph migration with its messages and derived-edge passes, between live
\* favourites.
NextGraphDerived ==
    \/ Neo_migrate_users
    \/ Neo_migrate_products
    \/ Neo_migrate_favorites
    \/ Neo_migrate_messages
    \/ Neo_create_recommendation_relationships
    \/ \E u \in Usernames, p \in {DecStr(1), DecStr(2)} :
         Cardinality(LiveEdges) < MaxLiveEdges /\ Neo_add_favorite(u, p)

SpecGraphDerived == Init /\ [][NextGraphDerived]_vars

\* The products passes of both migrations and the graph's derived-edge pass,
\* re-run over a source in which the products change category between runs.
NextGraphSimilar ==
    \/ Neo_migrate_users
    \/ Neo_migrate_products
    \/ Mongo_migrate_products
    \/ Neo_create_recommendation_relationships
    \/ \E id \in {1, 2} : Src_recategorize(id, 3 - id)

SpecGraphSimilar == Init /\ [][NextGraphSimilar]_vars

\* Products created through the API and products migrated, run after run, from
\* a source in which a product changes hands; their owners toggle them.
NextGraphOwners ==
    \/ Neo_migrate_users
    \/ Neo_migrate_products
    \/ \E u \in Usernames : gNextUuid <= MaxUuid /\ Neo_create("Lamp", u)
    \/ \E seller_id \in DOMAIN srcUsers : Src_transfer_product(1, seller_id)
    \/ \E u \in Usernames, p \in {DecStr(1), UuidStr(1)} : Neo_toggle_product_status(p, u)

SpecGraphOwners == Init /\ [][NextGraphOwners]_vars

NextRec ==
    \/ Tick
    \/ \E u \in Usernames : gNextUuid = 1 /\ Neo_create_user(u)
    \/ gNextUuid <= MaxRecProducts /\ Neo_create("Lamp", "alice")
    \/ \E u \in Usernames, p \in RecIdStrings :
         SumCounters(gProducts) < MaxRecInteractions /\ Neo_add_favorite(u, p)
    \/ \E u \in Usernames, p \in RecIdStrings :
         SumCounters(gProducts) < MaxRecInteractions /\ Neo_get_product(p, u)
    \/ \E limit \in 0..MaxLimit : Neo_recommend_products(RecTarget, limit)

SpecRec == Init /\ [][NextRec]_vars

----------------------------------------------------------------------------
(* Concurrent request handlers: every store call is one step, and a handler  *)
(* keeps what it has read between its calls.                                 *)

AtPc(p, pc, arg, seen) == [procs EXCEPT ![p] = [pc |-> pc, arg |-> arg, seen |-> seen]]

InFlight(pcs) == Cardinality({p \in Procs : procs[p].pc \in pcs})

concRest == <<now, srcVars, dConversations, graphVars, mig, gConstraint, gHist, startup>>

\* MongoDBProductRepository.create, first call: find_one on the seller.
Conc_create_find(p, seller_id) ==
    /\ procs[p].pc = "idle"
    /\ dNextOid + InFlight({"create_insert"}) <= MaxOid
    /\ IF ~ObjectIdIsValid(seller_id)
       THEN /\ resp' = [Resp("create", "ValueError") EXCEPT !.out = <<"Invalid seller ID">>]
            /\ UNCHANGED procs
       ELSE IF DocUserById(seller_id[2]) = {}
       THEN /\ resp' = [Resp("create", "ValueError") EXCEPT !.out = <<"Seller not found">>]
            /\ UNCHANGED procs
       ELSE /\ procs' = AtPc(p, "create_insert", seller_id,
                             <<CHOOSE u \in DocUserById(seller_id[2]) : TRUE>>)
            /\ resp' = Resp("create", "find_one")
    /\ UNCHANGED <<docVars, concRest>>

\* create, second call: insert_one of the product with the seller as read.
Conc_create_insert(p) ==
    /\ procs[p].pc = "create_insert"
    /\ dProducts' = dProducts \cup {NewProductDoc(dNextOid, procs[p].seen[1], "New")}
    /\ dNextOid' = dNextOid + 1
    /\ dLiveViews' = (dNextOid :> 0) @@ dLiveViews
    /\ procs' = AtPc(p, "create_inc", procs[p].arg, procs[p].seen)
    /\ resp' = Resp("create", "insert_one")
    /\ UNCHANGED <<dUsers, dHist, concRest>>

\* Mutant: product_count written as the value read by find_one, plus one.
Conc_create_inc_ReadModifyWrite(p) ==
    /\ procs[p].pc = "create_inc"
    /\ dUsers' = { IF u._id = procs[p].arg[2]
                   THEN [u EXCEPT !.product_count = procs[p].seen[1].product_count + 1]
                   ELSE u : u \in dUsers }
    /\ dHist' = [dHist EXCEPT ![procs[p].arg[2]].creates = @ + 1]
    /\ procs' = [procs EXCEPT ![p] = Idle]
    /\ resp' = Resp("create", "ok")
    /\ UNCHANGED <<dProducts, dNextOid, dLiveViews, concRest>>

\* create, third call: update_one with $inc product_count 1 on the seller.
Conc_create_inc(p) ==
    /\ procs[p].pc = "create_inc"
    /\ dUsers' = IncProductCount(dUsers, procs[p].arg[2], 1)
    /\ dHist' = [dHist EXCEPT ![procs[p].arg[2]].creates = @ + 1]
    /\ procs' = [procs EXCEPT ![p] = Idle]
    /\ resp' = Resp("create", "ok")
    /\ UNCHANGED <<dProducts, dNextOid, dLiveViews, concRest>>

\* MongoDBProductRepository.delete, first call: find_one on the product.
Conc_delete_find(p, product_id) ==
    /\ procs[p].pc = "idle"
    /\ IF ~ObjectIdIsValid(product_id)
       THEN /\ resp' = Resp("delete", "false")
            /\ UNCHANGED procs
       ELSE /\ procs' = AtPc(p, "delete_delete", product_id,
                             IF Mongo_get_by_id(product_id) = {} THEN <<>>
                             ELSE <<CHOOSE d \in Mongo_get_by_id(product_id) : TRUE>>)
            /\ resp' = Resp("delete", "find_one")
    /\ UNCHANGED <<docVars, concRest>>

\* delete, second call: delete_one; the decrement follows only when a document
\* was deleted and the product had been read.
Conc_delete_delete(p) ==
    /\ procs[p].pc = "delete_delete"
    /\ LET gone == Mongo_get_by_id(procs[p].arg)
       IN /\ dProducts' = dProducts \ gone
          /\ dLiveViews' = [x \in DOMAIN dLiveViews \ {d._id : d \in gone} |-> dLiveViews[x]]
          /\ IF gone # {} /\ procs[p].seen # <<>>
             THEN /\ procs' = AtPc(p, "delete_inc", procs[p].arg, procs[p].seen)
                  /\ resp' = Resp("delete", "delete_one")
             ELSE /\ procs' = [procs EXCEPT ![p] = Idle]
                  /\ resp' = Resp("delete", IF gone # {} THEN "true" ELSE "false")
    /\ UNCHANGED <<dUsers, dNextOid, dHist, concRest>>

\* delete, third call: update_one with $inc product_count -1 on the seller read
\* from the product.
Conc_delete_inc(p) ==
    /\ procs[p].pc = "delete_inc"
    /\ LET seller_id == procs[p].seen[1].seller.id
       IN IF ObjectIdIsValid(seller_id)
          THEN /\ dUsers' = IncProductCount(dUsers, seller_id[2], -1)
               /\ dHist' = [x \in DOMAIN dHist |->
                              IF x = seller_id[2]
                              THEN [dHist[x] EXCEPT !.deletes = @ + 1]
                              ELSE dHist[x]]
               /\ resp' = Resp("delete", "true")
          ELSE /\ UNCHANGED <<dUsers, dHist>>
               /\ resp' = Resp("delete", "InvalidId")
    /\ procs' = [procs EXCEPT ![p] = Idle]
    /\ UNCHANGED <<dProducts, dNextOid, dLiveViews, concRest>>

\* GET /mongodb/products/{product_id}, first call: get_by_id.
Conc_get_find(p, product_id) ==
    /\ procs[p].pc = "idle"
    /\ IF Mongo_get_by_id(product_id) = {}
       THEN /\ resp' = Resp("get_product", "404")
            /\ UNCHANGED procs
       ELSE /\ procs' = AtPc(p, "get_inc", product_id,
                             <<CHOOSE d \in Mongo_get_by_id(product_id) : TRUE>>)
            /\ resp' = Resp("get_product", "find_one")
    /\ UNCHANGED <<docVars, concRest>>

\* GET /mongodb/products/{product_id}, second call: increment_view_count, an
\* update_one with $inc that matches nothing once the product is gone.
Conc_get_inc(p) ==
    /\ procs[p].pc = "get_inc"
    /\ dProducts' = Mongo_increment_view_count(dProducts, procs[p].arg)
    /\ dLiveViews' = [x \in DOMAIN dLiveViews |->
                        IF x = procs[p].arg[2] THEN dLiveViews[x] + 1 ELSE dLiveViews[x]]
    /\ procs' = [procs EXCEPT ![p] = Idle]
    /\ resp' = Resp("get_product", "200")
    /\ UNCHANGED <<dUsers, dNextOid, dHist, concRest>>

\* POST /neo4j/auth/register, first statement: get_by_username.
Conc_register_check(p, username) ==
    /\ procs[p].pc = "idle"
    /\ IF UserNodes(username) # {}
       THEN /\ resp' = Resp("register", "400")
            /\ UNCHANGED procs
       ELSE /\ procs' = AtPc(p, "register_create", NoId, <<username>>)
            /\ resp' = Resp("register", "get_by_username")
    /\ UNCHANGED <<docVars, concRest>>

\* register, second statement: CREATE (u:User {...}). Only the uniqueness
\* constraint refuses a username some node already has.
Conc_register_create(p) ==
    /\ procs[p].pc = "register_create"
    /\ LET username == procs[p].seen[1]
       IN IF gConstraint /\ UserNodes(username) # {}
          THEN /\ resp' = Resp("register", "ConstraintError")
               /\ UNCHANGED <<gUsers, gNextId>>
          ELSE /\ gUsers' = gUsers \cup
                    {[nid |-> gNextId, username |-> username, email |-> "a@x",
                      full_name |-> username, is_active |-> PropBool(TRUE)]}
               /\ gNextId' = gNextId + 1
               /\ resp' = Resp("register", "201")
    /\ procs' = [procs EXCEPT ![p] = Idle]
    /\ UNCHANGED <<now, srcVars, dConversations, docVars, mig, gConstraint, gHist, startup>>
    /\ UNCHANGED <<gProducts, gCategories, gLocations, gEdges, gNextUuid>>

\* PATCH /neo4j/products/{product_id}/toggle-status, first statement: the
\* router's get_by_id.
Conc_toggle_exists(p, product_id, principal) ==
    /\ procs[p].pc = "idle"
    /\ IF Neo_get_by_id(product_id) = {}
       THEN /\ resp' = Resp("toggle_product_status", "404")
            /\ UNCHANGED procs
       ELSE /\ procs' = AtPc(p, "toggle_owner", product_id, <<principal>>)
            /\ resp' = Resp("toggle_product_status", "get_by_id")
    /\ UNCHANGED <<now, srcVars, dConversations, docVars, graphVars, mig, gConstraint,
                   gHist, startup>>

\* Second statement: get_seller_username, the ownership check.
Conc_toggle_owner(p) ==
    /\ procs[p].pc = "toggle_owner"
    /\ \E seller_username \in Neo_get_seller_username(procs[p].arg) :
         IF seller_username # procs[p].seen[1]
         THEN /\ procs' = [procs EXCEPT ![p] = Idle]
              /\ resp' = Resp("toggle_product_status", "403")
         ELSE /\ procs' = AtPc(p, "toggle_read", procs[p].arg, procs[p].seen)
              /\ resp' = Resp("toggle_product_status", "get_seller_username")
    /\ UNCHANGED <<now, srcVars, dConversations, docVars, graphVars, mig, gConstraint,
                   gHist, startup>>

\* toggle_status, first statement: get_by_id reads the current status and the
\* new status is computed from it.
Conc_toggle_read(p) ==
    /\ procs[p].pc = "toggle_read"
    /\ IF Neo_get_by_id(procs[p].arg) = {}
       THEN /\ procs' = [procs EXCEPT ![p] = Idle]
            /\ resp' = Resp("toggle_product_status", "500")
       ELSE \E product \in Neo_get_by_id(procs[p].arg) :
              /\ procs' = AtPc(p, "toggle_write", procs[p].arg,
                               <<NewStatus(product.status)>>)
              /\ resp' = Resp("toggle_product_status", "read")
    /\ UNCHANGED <<now, srcVars, dConversations, docVars, graphVars, mig, gConstraint,
                   gHist, startup>>

\* toggle_status, second statement: MATCH (p:Product {id}) SET p.status =
\* $status, p.updated_at; the handler answers with the status it wrote.
Conc_toggle_write(p) ==
    /\ procs[p].pc = "toggle_write"
    /\ LET new_status == procs[p].seen[1]
           matched == Neo_get_by_id(procs[p].arg) # {}
       IN /\ gProducts' = { IF x.id = procs[p].arg
                              THEN [x EXCEPT !.status = new_status,
                                             !.updated_at = IsoFormat(now)]
                              ELSE x : x \in gProducts }
          /\ gHist' = Applied(gHist, matched, procs[p].arg, "toggles")
          /\ resp' = IF matched
                     THEN [Resp("toggle_product_status", "200") EXCEPT
                             !.out = <<new_status>>]
                     ELSE Resp("toggle_product_status", "500")
    /\ procs' = [procs EXCEPT ![p] = Idle]
    /\ UNCHANGED <<gUsers, gCategories, gLocations, gEdges, gNextId, gNextUuid>>
    /\ UNCHANGED <<now, srcVars, dConversations, docVars, mig, gConstraint, startup>>

ConcSeller == OidStr(1)
ConcProduct == OidStr(2)
ConcTarget == UuidStr(1)

\* Handlers of both stores in flight together, after a startup that created
\* the constraints.
NextConc ==
    \/ procs[1].pc = "idle" /\ dUsers = {} /\ Mongo_create_user("alice")
    \/ \E p \in Procs : Conc_create_find(p, ConcSeller)
    \/ \E p \in Procs : Conc_create_insert(p)
    \/ \E p \in Procs : Conc_create_inc(p)
    \/ \E p \in Procs : Conc_delete_find(p, ConcProduct)
    \/ \E p \in Procs : Conc_delete_delete(p)
    \/ \E p \in Procs : Conc_delete_inc(p)
    \/ \E p \in Procs :
         LiveViewTotal + InFlight({"get_inc"}) < MaxDocViews /\ Conc_get_find(p, ConcProduct)
    \/ \E p \in Procs : Conc_get_inc(p)
    \/ gNextUuid <= MaxUuid /\ Neo_create("Lamp", "alice")
    \/ \E u \in {"alice", NullStr} :
         SumCounters(gProducts) < MaxConcInteractions /\ Neo_track_view(ConcTarget, u)
    \/ SumCounters(gProducts) < MaxConcInteractions /\ Neo_add_favorite("alice", ConcTarget)

SpecConc == Init /\ [][NextConc]_vars

\* The application after startup: the lifespan handler logs a failure of
\* init_neo4j and goes on, so the constraints exist or do not.
InitConc == InitStores /\ gConstraint \in BOOLEAN /\ startup = Serving

\* Every way a User node comes to be, in flight together.
NextConcUsers ==
    \/ \E p \in Procs, u \in Usernames : Conc_register_check(p, u)
    \/ \E p \in Procs : Conc_register_create(p)
    \/ \E u \in Usernames : Neo_create_user(u)
    \/ \E u \in Usernames : gNextUuid <= MaxUuid /\ Neo_create("Lamp", u)

SpecConcUsers == InitConc /\ [][NextConcUsers]_vars

\* The toggles of the target product finished or past the ownership check.
TogglesStarted ==
    (IF ConcTarget \in DOMAIN gHist THEN gHist[ConcTarget].toggles ELSE 0)
    + InFlight({"toggle_owner", "toggle_read", "toggle_write"})

\* Status toggles of one product in flight together, by its owner and by
\* another user.
NextConcToggle ==
    \/ gNextUuid <= MaxUuid /\ Neo_create("Lamp", "alice")
    \/ Tick
    \/ \E p \in Procs, u \in Usernames :
         TogglesStarted < MaxToggles /\ Conc_toggle_exists(p, ConcTarget, u)
    \/ \E p \in Procs : Conc_toggle_owner(p)
    \/ \E p \in Procs : Conc_toggle_read(p)
    \/ \E p \in Procs : Conc_toggle_write(p)

SpecConcToggle == Init /\ [][NextConcToggle]_vars

----------------------------------------------------------------------------
(* Principal resolution: app/dependencies.py *)

\* A bearer credential: the subject its payload carries (NullStr: no "sub"
\* claim) and whether its signature and expiry verify.
Tokens == [sub : {"alice", "bob", "carol", NullStr}, valid : BOOLEAN]

\* AuthService.verify_token: the subject, or HTTPException 401.
verify_token(token) ==
    IF token.valid /\ token.sub # NullStr
    THEN [ok |-> TRUE, username |-> token.sub]
    ELSE [ok |-> FALSE, username |-> NullStr]

\* MongoDBUserRepository.get_by_username: find_one({"username": username}).
get_by_username(username) ==
    IF \E u \in dUsers : u.username = username
    THEN { <<u>> : u \in {x \in dUsers : x.username = username} }
    ELSE { <<>> }

\* SimpleNamespace(id=None, username, is_active, is_admin) as a response body.
Principal(username, is_active, is_admin) ==
    <<username, PropBool(is_active), PropBool(is_admin)>>

\* The principal derived from the credential alone.
FallbackPrincipal(username) == Principal(username, TRUE, FALSE)

\* get_current_user: the store lookup sits in try / except Exception.
\* up: whether the document store answers this request.
get_current_user(token, up) ==
    LET v == verify_token(token)
    IN /\ IF ~v.ok
          THEN resp' = Resp("get_current_user", "401")
          ELSE \E found \in (IF up THEN get_by_username(v.username) ELSE { <<>> }) :
                 resp' = [Resp("get_current_user", "ok") EXCEPT
                            !.out = IF found # <<>>
                                    THEN Principal(found[1].username, found[1].is_active,
                                                   found[1].is_admin)
                                    ELSE FallbackPrincipal(v.username)]
       /\ UNCHANGED <<now, srcVars, docVars, dConversations, graphVars, mig, concVars>>

\* get_current_user_optional: the lookup sits in try / except HTTPException, so
\* a failure of the store call leaves the dependency as an unhandled error.
\* credentials: <<>> without an Authorization header, else <<token>>.
get_current_user_optional(credentials, up) ==
    /\ IF credentials = <<>>
       THEN resp' = Resp("get_current_user_optional", "none")
       ELSE LET v == verify_token(credentials[1])
            IN IF ~v.ok
               THEN resp' = Resp("get_current_user_optional", "none")
               ELSE IF ~up
               THEN resp' = Resp("get_current_user_optional", "500")
               ELSE \E found \in get_by_username(v.username) :
                      resp' = [Resp("get_current_user_optional", "ok") EXCEPT
                                 !.out = IF found # <<>> /\ found[1].is_active
                                         THEN Principal(found[1].username,
                                                        found[1].is_active,
                                                        found[1].is_admin)
                                         ELSE FallbackPrincipal(v.username)]
    /\ UNCHANGED <<now, srcVars, docVars, dConversations, graphVars, mig, concVars>>

\* Authenticated requests against a document store that registrations and the
\* users pass fill, and that answers or does not.
NextAuth ==
    \/ \E u \in Usernames : Mongo_create_user(u)
    \/ Mongo_migrate_users
    \/ Tick
    \/ \E t \in Tokens, up \in BOOLEAN : get_current_user(t, up)
    \/ \E t \in Tokens, up \in BOOLEAN : get_current_user_optional(<<t>>, up)
    \/ \E up \in BOOLEAN : get_current_user_optional(<<>>, up)

SpecAuth == Init /\ [][NextAuth]_vars

----------------------------------------------------------------------------
(* Startup: init_neo4j under the lifespan handler *)

\* What an attempt can raise: the server is not up yet, refuses the login, or
\* rejects a statement.
InitFailures == {"ServiceUnavailable", "AuthError", "ClientError"}

\* Mutant: a successful attempt does not return, the loop goes on.
Neo4j_init_attempt_NoReturn(outcome) ==
    /\ startup.pc = "try"
    /\ startup.attempts < InitAttempts
    /\ IF outcome = "ok"
       THEN /\ gConstraint' = TRUE
            /\ startup' = [startup EXCEPT !.attempts = @ + 1]
            /\ resp' = Resp("init_neo4j_attempt", "ok")
       ELSE /\ gConstraint' = gConstraint
            /\ startup' = [startup EXCEPT !.pc = "sleep", !.attempts = @ + 1,
                                          !.last_exc = <<outcome>>]
            /\ resp' = Resp("init_neo4j_attempt", "failed")
    /\ UNCHANGED <<now, srcVars, docVars, dConversations, graphVars, mig, procs, gHist>>

\* One pass of the loop body: the three statements run and init_neo4j returns,
\* or one of them raises and the exception is kept in last_exc.
Neo4j_init_attempt(outcome) ==
    /\ startup.pc = "try"
    /\ startup.attempts < InitAttempts
    /\ IF outcome = "ok"
       THEN /\ gConstraint' = TRUE
            /\ startup' = [startup EXCEPT !.pc = "returned", !.attempts = @ + 1]
            /\ resp' = Resp("init_neo4j", "returned")
       ELSE /\ gConstraint' = gConstraint
            /\ startup' = [startup EXCEPT !.pc = "sleep", !.attempts = @ + 1,
                                          !.last_exc = <<outcome>>]
            /\ resp' = Resp("init_neo4j_attempt", "failed")
    /\ UNCHANGED <<now, srcVars, docVars, dConversations, graphVars, mig, procs, gHist>>

\* await asyncio.sleep(1) in the except branch.
Neo4j_init_sleep ==
    /\ startup.pc = "sleep"
    /\ startup' = [startup EXCEPT !.pc = "try", !.slept = @ + RetryDelay]
    /\ resp' = Resp("init_neo4j_sleep", "none")
    /\ UNCHANGED <<now, srcVars, docVars, dConversations, graphVars, mig, procs,
                   gConstraint, gHist>>

\* The loop is exhausted: if last_exc: raise last_exc.
Neo4j_init_exhausted ==
    /\ startup.pc = "try"
    /\ startup.attempts = InitAttempts
    /\ IF startup.last_exc # <<>>
       THEN /\ startup' = [startup EXCEPT !.pc = "raised"]
            /\ resp' = [Resp("init_neo4j", "raised") EXCEPT !.out = startup.last_exc]
       ELSE /\ startup' = [startup EXCEPT !.pc = "returned"]
            /\ resp' = Resp("init_neo4j", "returned")
    /\ UNCHANGED <<now, srcVars, docVars, dConversations, graphVars, mig, procs,
                   gConstraint, gHist>>

\* lifespan: a failure of init_neo4j is logged as a warning; the application
\* becomes ready either way.
Lifespan_ready ==
    /\ startup.pc \in {"returned", "raised"}
    /\ startup' = Serving
    /\ resp' = Resp("lifespan", IF startup.pc = "raised" THEN "warning" ELSE "ready")
    /\ UNCHANGED <<now, srcVars, docVars, dConversations, graphVars, mig, procs,
                   gConstraint, gHist>>

\* The process starts: no constraint yet, init_neo4j before its first attempt.
InitStartup ==
    /\ InitStores
    /\ gConstraint = FALSE
    /\ startup = [pc |-> "try", attempts |-> 0, last_exc |-> <<>>, slept |-> 0]

NextStartup ==
    \/ \E outcome \in {"ok"} \cup InitFailures : Neo4j_init_attempt(outcome)
    \/ Neo4j_init_sleep
    \/ Neo4j_init_exhausted
    \/ Lifespan_ready

SpecStartup == InitStartup /\ [][NextStartup]_vars

\* The event loop runs the startup coroutine on: every attempt and every sleep
\* ends.
SpecStartupFair == SpecStartup /\ WF_vars(NextStartup)

----------------------------------------------------------------------------
(* Properties of the document store *)

\* C1: for every seller, product_count equals its initial value plus the number
\* of successful creates minus the number of successful deletes of that seller's
\* products, whatever was done to other sellers in between.
C1_CounterConsistency ==
    \A u \in dUsers :
        u.product_count = dHist[u._id].init + dHist[u._id].creates - dHist[u._id].deletes

\* C1 witness: one seller with a create and a delete, another seller with a create.
C1_Witness ==
    \E u, v \in dUsers :
        /\ u # v
        /\ dHist[u._id].creates >= 1 /\ dHist[u._id].deletes >= 1
        /\ dHist[v._id].creates >= 1

\* The view events against a product document: the source item_views rows of a
\* migrated product, and the live views, which are later than every migrated row.
SrcLatestView == CHOOSE t \in {v.viewed_at : v \in SrcItemViews} :
                    \A v \in SrcItemViews : v.viewed_at <= t

ViewEvents(d) ==
    { [id |-> v.id, viewer_user_id |-> v.viewer_user_id, viewed_at |-> v.viewed_at]
      : v \in {x \in SrcItemViews : d.legacy # 0 /\ x.product_id = d.legacy} }
    \cup { [id |-> Cardinality(SrcItemViews) + k, viewer_user_id |-> 0,
            viewed_at |-> SrcLatestView + k] : k \in 1..dLiveViews[d._id] }

MostRecentViews(d) ==
    LET recent == Limit(OrderByViewedAtDesc(ViewEvents(d)), RecentViewsCap)
    IN [i \in 1..Len(recent) |->
          [viewer_user_id |-> recent[i].viewer_user_id, viewed_at |-> recent[i].viewed_at]]

\* C6: a product with more than 10 view events has a recent_views list of length
\* exactly 10 that holds the 10 most recent view events, newest first.
C6_CappedHistory ==
    \A d \in dProducts :
        Cardinality(ViewEvents(d)) > RecentViewsCap =>
            /\ Len(d.recent_views) = RecentViewsCap
            /\ d.recent_views = MostRecentViews(d)

\* C7: a getById that hits a product raises that product's stored view_count by
\* exactly 1 and changes nothing else; a getById that misses changes no document;
\* a product created through the API has a view_count equal to the number of hits.
C7_GetByIdCountsView ==
    [][ /\ \A p \in DocIdStrings :
              Mongo_get_product(p) =>
                  /\ dUsers' = dUsers
                  /\ dProducts' = { IF OidStr(d._id) = p
                                    THEN [d EXCEPT !.view_count = @ + 1] ELSE d
                                    : d \in dProducts }
        /\ \A d \in dProducts' : d.legacy = 0 => d.view_count = dLiveViews'[d._id]
      ]_vars

\* C7 witness: a product created with view_count 0 and read twice.
C7_Witness ==
    /\ resp = Resp("get_product", "200")
    /\ \E d \in dProducts : d.legacy = 0 /\ d.view_count = 2 /\ dLiveViews[d._id] = 2
    /\ Cardinality(dProducts) >= 2

\* The user documents of the seller a product document names.
OwningSeller(d) == {u \in dUsers : u.username = d.seller.username}

\* C8: delete(productId) never raises; for an existing product it removes the
\* document, decrements the owning seller's product_count by exactly 1 and returns
\* true, and getById then finds nothing; for a missing product it returns false
\* and changes no document.
C8_DeleteNeverRaises ==
    [][ \A p \in DocIdStrings :
            Mongo_delete(p) =>
                IF Mongo_get_by_id(p) # {}
                THEN /\ resp'.status = "true"
                     /\ dProducts' = dProducts \ Mongo_get_by_id(p)
                     /\ \A d \in Mongo_get_by_id(p) :
                            dUsers' = { IF u \in OwningSeller(d)
                                        THEN [u EXCEPT !.product_count = @ - 1] ELSE u
                                        : u \in dUsers }
                ELSE /\ resp'.status = "false"
                     /\ UNCHANGED <<dUsers, dProducts>>
      ]_vars

----------------------------------------------------------------------------
(* Properties of the graph store: recommendations *)

\* The User nodes with at least one FAVORITED or VIEWED edge to the product.
Interactors(product_id) ==
    { u \in gUsers : \E e \in gEdges, p \in gProducts :
        /\ p.id = product_id /\ e.type \in Interacted
        /\ e.src = u.nid /\ e.dst = p.nid }

CoScore(target_id, candidate_id) ==
    Cardinality(Interactors(target_id) \cap Interactors(candidate_id))

IsoParse(str) == 2 * (str[1] - 48) + (IF Len(str) = 4 THEN 1 ELSE 0)

Candidates(target_id) ==
    { q \in gProducts : q.id # target_id /\ CoScore(target_id, q.id) >= 1 }

\* a ranks strictly ahead of b: higher score, or equal score and created later.
Ahead(target_id, a, b) ==
    \/ CoScore(target_id, a.id) > CoScore(target_id, b.id)
    \/ /\ CoScore(target_id, a.id) = CoScore(target_id, b.id)
       /\ IsoParse(a.created_at) > IsoParse(b.created_at)

ProductOf(id) == CHOOSE q \in gProducts : q.id = id

----------------------------------------------------------------------------
(* Properties of the graph store: the product API *)

\* The usernames at the source of the product's CREATED edges.
CreatedBy(product_id) ==
    { u.username : u \in { x \in gUsers : \E e \in gEdges, p \in ProductNodes(product_id) :
                             e.type = "CREATED" /\ e.src = x.nid /\ e.dst = p.nid } }

GatedOps == {"update_product", "delete_product", "mark_product_as_sold",
             "toggle_product_status"}

\* C4: update, delete, markAsSold and toggleStatus on an existing product,
\* requested by a principal who is not at the source of its CREATED edge (or
\* when it has no CREATED edge), answer 403 and leave the graph as it was: a
\* step of these handlers that is anything else is no such request.
C4_OwnershipGate ==
    [][ \/ resp'.op \notin GatedOps
        \/ resp'.status = "403" /\ UNCHANGED graphVars
        \/ \A u \in Principals, p \in GraphIdStrings :
             (ProductNodes(p) # {} /\ u \notin CreatedBy(p)) =>
                ~ \/ \E f \in UpdateInputs : Neo_update_product(p, u, f[1], f[2])
                  \/ Neo_delete_product(p, u)
                  \/ Neo_mark_product_as_sold(p, u)
                  \/ Neo_toggle_product_status(p, u) ]_vars

\* A non-owner's request was refused on a product that has been viewed.
C4_Witness ==
    /\ resp.status = "403"
    /\ resp.op \in GatedOps
    /\ \E p \in gProducts : p.view_count > 0 /\ CreatedBy(p.id) # {}

\* C9: toggleStatus on an existing product turns active into paused and paused
\* into active, and leaves sold and every other status as it is.
C9_ToggleOnlyActivePaused ==
    [][ \A u \in Principals, p \in GraphIdStrings :
          (Neo_toggle_product_status(p, u) /\ resp'.status = "200") =>
              \A old \in ProductNodes(p) : \E new \in gProducts' :
                  /\ new.nid = old.nid
                  /\ new.status = CASE old.status = "active" -> "paused"
                                    [] old.status = "paused" -> "active"
                                    [] OTHER -> old.status ]_vars

\* C10: trackView on an existing product raises its view_count by exactly 1,
\* with any viewer username and with none; with none, no edge is created.
C10_TrackViewCountsOnce ==
    [][ \A v \in Principals \cup {NullStr}, p \in GraphIdStrings :
          (Neo_track_view(p, v) /\ ProductNodes(p) # {}) =>
              /\ \A old \in ProductNodes(p) : \E new \in gProducts' :
                    new.nid = old.nid /\ new.view_count = old.view_count + 1
              /\ v = NullStr => gEdges' = gEdges ]_vars

----------------------------------------------------------------------------
(* Properties of the graph migration *)

MigratedProductIds == { pid \in DOMAIN srcProducts : srcProducts[pid].seller_id \in DOMAIN srcUsers }

\* One node per natural key, for every node kind.
OneNodePerKey ==
    /\ \A a, b \in gUsers : a.username = b.username => a = b
    /\ \A a, b \in gProducts : a.id = b.id => a = b
    /\ \A a, b \in gCategories : a.id = b.id => a = b
    /\ \A a, b \in gLocations : (a.postcode = b.postcode /\ a.city = b.city) => a = b

\* Every source row has its node, carrying the row's values.
NodesMatchSource ==
    /\ \A id \in DOMAIN srcUsers : \E u \in gUsers :
          /\ u.username = srcUsers[id].username
          /\ u.email = srcUsers[id].email
          /\ u.full_name = IF srcUsers[id].full_name = NullStr
                          THEN srcUsers[id].username ELSE srcUsers[id].full_name
          /\ (u.is_active = "true") = srcUsers[id].is_active
    /\ \A pid \in MigratedProductIds : \E p \in gProducts :
          /\ p.id = <<"dec", pid>>
          /\ p.title = srcProducts[pid].title
          /\ p.description = srcProducts[pid].description
          /\ p.price_amount = srcProducts[pid].price_amount
          /\ p.status = srcProducts[pid].status
          /\ p.view_count = srcProducts[pid].views_count
          /\ p.favorite_count = srcProducts[pid].likes_count
          /\ IsoParse(p.created_at) = srcProducts[pid].created_at

BothPasses(m) == m.users >= 1 /\ m.products >= 1

\* C5: once migrate_users and migrate_products have both run on the source,
\* every natural key has exactly one node and the nodes carry the source's
\* values; running either pass again leaves nodes, properties and edges as the
\* first run left them.
C5_MigrationIdempotent ==
    [][ (Neo_migrate_users \/ Neo_migrate_products) =>
          /\ BothPasses(mig') => (OneNodePerKey' /\ NodesMatchSource')
          /\ (BothPasses(mig) /\ graphVars = mig.snap) => UNCHANGED graphVars ]_vars

\* Both passes have run twice in a row, over products changed through the API
\* before the first of them.
C5_Witness ==
    /\ mig.users >= 2 /\ mig.products >= 2
    /\ graphVars = mig.snap
    /\ resp.op \in {"graph_migrate_users", "graph_migrate_products"}
    /\ \E p \in gProducts : p.updated_at # NoProp

----------------------------------------------------------------------------
(* Properties of the graph store: interaction edges *)

ParallelEdges(type) ==
    { pair \in gEdges \X gEdges :
        /\ pair[1].type = type /\ pair[2].type = type
        /\ pair[1].src = pair[2].src /\ pair[1].dst = pair[2].dst
        /\ pair[1] # pair[2] }

\* C11: in every reachable graph state a (user, product) pair has at most one
\* VIEWED edge: a repeat view overwrites the edge's timestamp.
C11_OneViewedEdgePerPair == ParallelEdges("VIEWED") = {}

\* C12: in every reachable graph state a (user, product) pair has at most one
\* FAVORITED edge: favouriting again is a no-op on the edge set.
C12_OneFavoritedEdgePerPair == ParallelEdges("FAVORITED") = {}

----------------------------------------------------------------------------
(* Properties of the document store: create *)

----------------------------------------------------------------------------
(* Properties of concurrent request handlers *)

GraphApplied(product_id, counter) ==
    IF product_id \in DOMAIN gHist THEN gHist[product_id][counter] ELSE 0

\* C14: however the store calls of concurrent handlers interleave, every
\* counter equals its initial value plus the deltas applied to it so far:
\* product_count of a user, view_count of a product document, view_count and
\* favorite_count of a product node.
C14_NoLostCounterUpdate ==
    /\ \A u \in dUsers :
         u.product_count = dHist[u._id].init + dHist[u._id].creates - dHist[u._id].deletes
    /\ \A d \in dProducts : d.view_count = dLiveViews[d._id]
    /\ \A p \in gProducts :
         /\ p.view_count = GraphApplied(p.id, "view_count")
         /\ p.favorite_count = GraphApplied(p.id, "favorite_count")

\* A handler is about to apply its increment to a seller whose product_count
\* another handler has raised since this one read the seller, and a product
\* node has had two deltas applied.
C14_Witness ==
    /\ \E p \in Procs, u \in dUsers :
         /\ procs[p].pc = "create_inc"
         /\ u._id = procs[p].arg[2]
         /\ procs[p].seen[1].product_count < u.product_count
    /\ \E g \in gProducts : g.view_count + g.favorite_count >= 2

\* C15: the graph never holds two User nodes with one username, whether or not
\* the uniqueness constraints were created at startup.
C15_OneUserNodePerUsername ==
    \A u \in gUsers, v \in gUsers : u.username = v.username => u = v

----------------------------------------------------------------------------
(* Properties of the document migration *)

DocMigrationPasses == {"migrate_users", "migrate_products", "migrate_conversations"}

\* C16: a pass of the document migration never changes the created_at of a
\* user, product or conversation document that already exists under its
\* migration key (username, legacy_mysql_id), whatever the source row says.
C16_CreatedAtPreserved ==
    [][ resp'.op \in DocMigrationPasses =>
          /\ \A u \in dUsers, v \in dUsers' :
               v.username = u.username => v.created_at = u.created_at
          /\ \A d \in dProducts, e \in dProducts' :
               (d.legacy # 0 /\ e.legacy = d.legacy) => e.created_at = d.created_at
          /\ \A c \in dConversations, e \in dConversations' :
               e.legacy = c.legacy => e.created_at = c.created_at ]_vars

\* The fields of a migrated product document other than created_at and _id.
Projected(d) ==
    [legacy |-> d.legacy, title |-> d.title, description |-> d.description,
     status |-> d.status, seller |-> d.seller, category |-> d.category,
     view_count |-> d.view_count, favorite_count |-> d.favorite_count,
     recent_views |-> d.recent_views]

\* C17: after every run of the product pass there is exactly one document per
\* source product (whose seller exists) and its fields other than created_at
\* are the projection of the current source row, a cleared description or
\* category included.
C17_ProductsConverge ==
    [][ resp'.op = "migrate_products" =>
          \A pid \in DOMAIN srcProducts :
             srcProducts[pid].seller_id \in DOMAIN srcUsers =>
                /\ Cardinality({d \in dProducts' : d.legacy = pid}) = 1
                /\ \A d \in dProducts' :
                     d.legacy = pid => Projected(d) = ProductDocOf(pid) ]_vars

\* C19: after every run of the favorites pass each migrated user's favorites
\* are exactly the favorites rows the source holds for that user now, and
\* favorite_count is their number; none left in the source means none embedded.
C19_FavoritesRebuilt ==
    [][ resp'.op = "migrate_favorites" =>
          \A id \in DOMAIN srcUsers, x \in dUsers' :
             x.username = srcUsers[id].username =>
                /\ x.favorites = FavoritesEmb(id)
                /\ x.favorite_count = Cardinality(FavoritesEmb(id)) ]_vars

\* C20: every conversation document the migration wrote has at least two
\* participants.
C20_TwoParticipants ==
    \A c \in dConversations : Len(c.participants) >= 2

----------------------------------------------------------------------------
(* Properties of the graph migration: item views *)

\* The viewed_at values of the migrated source views of one (user, product) pair.
PairViewedAt(uid, pid) ==
    { MigratedViews[i].viewed_at : i \in { j \in 1..Len(MigratedViews) :
          /\ MigratedViews[j].viewer_user_id = uid
          /\ MigratedViews[j].product_id = pid } }

SetMax(S) == CHOOSE x \in S : \A y \in S : y <= x

\* C18: after a run of the item-views pass, every VIEWED edge between the node
\* of a source user and the node of a source product carries, as viewed_at, the
\* most recent viewed_at among the migrated views of that pair.
C18_LastViewedWins ==
    [][ resp'.op = "graph_migrate_item_views" =>
          \A uid \in DOMAIN srcUsers, pid \in DOMAIN srcProducts :
             PairViewedAt(uid, pid) # {} =>
                \A e \in gEdges', u \in UserNodes(srcUsers[uid].username),
                   q \in ProductNodes(DecStr(pid)) :
                   (e.type = "VIEWED" /\ e.src = u.nid /\ e.dst = q.nid) =>
                       e.viewed_at = IsoFormat(SetMax(PairViewedAt(uid, pid))) ]_vars

----------------------------------------------------------------------------
(* Properties of the graph migration: messages and derived edges *)

\* The existing users among the participants of a conversation.
Participants(conv) ==
    { r.user_id : r \in { x \in SrcParticipants :
                            x.conversation_id = conv /\ x.user_id \in DOMAIN srcUsers } }

ConvMessages(conv) == {m \in SrcMessages : m.conversation_id = conv}

\* C21: after a run of the messages pass, every two distinct participants of a
\* conversation with at least two participants (whose nodes exist) are joined by
\* a MESSAGED edge in each direction, carrying the number of the conversation's
\* messages and the timestamp of its last message.
C21_MessagedEdges ==
    [][ resp'.op = "graph_migrate_messages" =>
          \A conv \in DOMAIN SrcConversations :
             (Cardinality(Participants(conv)) >= 2 /\ ConvMessages(conv) # {}) =>
                \A a \in Participants(conv) : \A b \in Participants(conv) \ {a} :
                   \A u \in UserNodes(srcUsers[a].username),
                      v \in UserNodes(srcUsers[b].username) :
                      \E e \in gEdges' :
                         /\ e.type = "MESSAGED" /\ e.src = u.nid /\ e.dst = v.nid
                         /\ e.message_count = Cardinality(ConvMessages(conv))
                         /\ e.last_message_at =
                              IsoFormat(SetMax({m.created_at : m \in ConvMessages(conv)}))
    ]_vars

\* The distinct users holding a FAVORITED edge to both product nodes.
SharedUsers(edges, p, q) ==
    { u \in {x.nid : x \in gUsers} :
        /\ \E e \in edges : e.type = "FAVORITED" /\ e.src = u /\ e.dst = p
        /\ \E e \in edges : e.type = "FAVORITED" /\ e.src = u /\ e.dst = q }

\* The edges of one type joining two nodes, in either direction.
Joining(edges, type, p, q) ==
    { e \in edges : e.type = type /\ \/ (e.src = p /\ e.dst = q)
                                     \/ (e.src = q /\ e.dst = p) }

\* C22: after the derived-edge pass a RELATED_TO edge joins two distinct
\* products exactly when at least two distinct users favorited both, and its
\* shared_favorite_count is the number of those users.
C22_RelatedToCountsDistinctUsers ==
    [][ resp'.op = "graph_recommendation_relationships" =>
          \A p \in {x.nid : x \in gProducts} : \A q \in {x.nid : x \in gProducts} \ {p} :
             LET shared == Cardinality(SharedUsers(gEdges', p, q))
                 related == Joining(gEdges', "RELATED_TO", p, q)
             IN /\ (related # {}) <=> (shared >= 2)
                /\ \A e \in related : e.shared_favorite_count = shared
      ]_vars

\* The product nodes with an IN_CATEGORY edge to one common Category node.
ShareCategory(edges, p, q) ==
    \E c \in {x.nid : x \in gCategories} :
       /\ \E e \in edges : e.type = "IN_CATEGORY" /\ e.src = p /\ e.dst = c
       /\ \E e \in edges : e.type = "IN_CATEGORY" /\ e.src = q /\ e.dst = c

\* C23: after any number of runs of the derived-edge pass, every pair of
\* distinct products sharing a category is joined by exactly one SIMILAR_TO
\* edge with reason same_category, no product has a SIMILAR_TO edge to itself,
\* and a run right after a run leaves the edges as they are.
C23_OneSimilarToPerPair ==
    [][ resp'.op = "graph_recommendation_relationships" =>
          /\ \A p \in {x.nid : x \in gProducts} : \A q \in {x.nid : x \in gProducts} \ {p} :
                /\ Cardinality(Joining(gEdges', "SIMILAR_TO", p, q)) <= 1
                /\ ShareCategory(gEdges', p, q) =>
                      /\ Cardinality(Joining(gEdges', "SIMILAR_TO", p, q)) = 1
                      /\ \A e \in Joining(gEdges', "SIMILAR_TO", p, q) :
                            e.reason = "same_category"
          /\ \A e \in gEdges' : e.type = "SIMILAR_TO" => e.src # e.dst
          /\ resp.op = "graph_recommendation_relationships" => gEdges' = gEdges
      ]_vars

\* Two products sharing both categories are joined by one SIMILAR_TO edge after the pass.
C23_Witness ==
    /\ resp.op = "graph_recommendation_relationships"
    /\ \E p \in gProducts, q \in gProducts :
          /\ p.nid # q.nid
          /\ Cardinality({ r \in SameCategoryRows : {r.p1, r.p2} = {p.nid, q.nid} }) = 2
          /\ Joining(gEdges, "SIMILAR_TO", p.nid, q.nid) # {}

----------------------------------------------------------------------------
(* Properties of the migrations: products without a seller row *)

Orphans == {p \in DOMAIN srcProducts : srcProducts[p].seller_id \notin DOMAIN srcUsers}

\* C24: a source product whose seller row cannot be found yields no aggregate
\* in the document store and no node in the graph, the run goes on to migrate
\* the remaining products, and the product is still counted in the run's
\* product count.
C24_OrphanSkippedButCounted ==
    [][ /\ resp'.op = "migrate_products" =>
            /\ resp'.status = "ok"
            /\ \A p \in Orphans : ~ \E d \in dProducts' : d.legacy = p
            /\ \A p \in DOMAIN srcProducts \ Orphans : \E d \in dProducts' : d.legacy = p
            /\ resp'.out = <<Cardinality(DOMAIN srcProducts)>>
        /\ resp'.op = "graph_migrate_products" =>
            /\ resp'.status = "ok"
            /\ \A p \in Orphans : ~ \E n \in gProducts' : n.id = DecStr(p)
            /\ \A p \in DOMAIN srcProducts \ Orphans : \E n \in gProducts' : n.id = DecStr(p)
            /\ resp'.out = <<Cardinality(DOMAIN srcProducts)>>
      ]_vars

----------------------------------------------------------------------------
(* Properties of principal resolution *)

\* C26: a request carrying a valid credential always gets a principal whose
\* identifier is the credential's subject, whether or not the document store
\* answers or holds a record; without an answer or a record the principal is
\* the minimal one, active and not admin.
C26_PrincipalAlwaysResolved ==
    [][ \A t \in Tokens, up \in BOOLEAN :
          ( /\ verify_token(t).ok
            /\ \/ get_current_user(t, up)
               \/ get_current_user_optional(<<t>>, up) ) =>
            /\ resp'.status = "ok"
            /\ resp'.out[1] = t.sub
            /\ (~up \/ get_by_username(t.sub) = { <<>> }) =>
                  resp'.out = <<t.sub, "true", "false">>
      ]_vars

----------------------------------------------------------------------------
(* Properties of startup *)

\* C25: init_neo4j always terminates: it makes at most 20 attempts a fixed
\* delay apart, returns at the first attempt that succeeds without a further
\* attempt, and when every attempt failed raises the failure of the last one.
C25_InitTerminates ==
    /\ [][ /\ startup'.attempts <= InitAttempts
           /\ startup'.slept <= InitAttempts * RetryDelay
           /\ startup'.pc = "sleep" => startup'.slept = (startup'.attempts - 1) * RetryDelay
           /\ (startup.pc = "try" /\ gConstraint') =>
                 /\ startup'.pc = "returned"
                 /\ resp' = Resp("init_neo4j", "returned")
           /\ startup.pc = "returned" => startup'.pc = "serving"
           /\ startup'.pc = "raised" =>
                 /\ startup'.attempts = InitAttempts
                 /\ resp'.status = "raised"
                 /\ resp'.out = startup.last_exc
                 /\ startup.last_exc # <<>>
                 /\ ~gConstraint'
           /\ (startup.pc = "try" /\ startup.attempts = InitAttempts) =>
                 startup'.pc = "raised"
         ]_vars
    /\ <>(startup.pc \in {"returned", "raised"})

\* Every one of the 20 attempts failed and the last failure was raised.
C25_Witness ==
    /\ startup.pc = "raised"
    /\ startup.attempts = InitAttempts
    /\ resp.out = startup.last_exc
    /\ startup.slept = InitAttempts * RetryDelay

----------------------------------------------------------------------------
(* Properties of the graph store: ownership *)

\* The CREATED edges into a product node.
CreatedInto(edges, nid) == {e \in edges : e.type = "CREATED" /\ e.dst = nid}

\* C27: in every graph state reached through product creation and migration
\* runs each Product node has exactly one inbound CREATED edge, the owner
\* lookup has one answer, which for a created product is its creator, and the
\* owner passes the ownership check.
C27_OneCreatedEdgePerProduct ==
    [][ /\ \A p \in gProducts' :
              /\ Cardinality(CreatedInto(gEdges', p.nid)) = 1
              /\ Cardinality(Neo_get_seller_username(p.id)') = 1
        /\ \A u \in Usernames, n \in 1..MaxUuid :
              (gNextUuid = n /\ Neo_create("Lamp", u)) =>
                 Neo_get_seller_username(UuidStr(n))' = {u}
        /\ \A u \in Usernames, id \in {DecStr(1), UuidStr(1)} :
              (Neo_get_seller_username(id) = {u} /\ Neo_toggle_product_status(id, u)) =>
                 resp'.status = "200"
      ]_vars

----------------------------------------------------------------------------
(* Properties of the document store: counters *)

\* C28: in every state reached through the document-store operations no
\* counter is negative: product_count of a user, view_count and
\* favorite_count of a product.
C28_CountersNonNegative ==
    /\ \A u \in dUsers : u.product_count >= 0
    /\ \A d \in dProducts : d.view_count >= 0 /\ d.favorite_count >= 0

----------------------------------------------------------------------------
(* Properties of concurrent status toggles *)

\* The status a product created active has after n toggles one after another.
AfterToggles(n) == IF n % 2 = 0 THEN "active" ELSE "paused"

\* C29: status toggles of one product running concurrently leave it as the
\* same number of toggles one after another would (the original status for an
\* even number, the other for an odd number), and every toggle reports the
\* status its own write left.
C29_TogglesAsSequential ==
    \A x \in ProductNodes(ConcTarget) :
       /\ InFlight({"toggle_read", "toggle_write"}) = 0 =>
             x.status = AfterToggles(GraphApplied(ConcTarget, "toggles"))
       /\ (resp.op = "toggle_product_status" /\ resp.status = "200") =>
             resp.out = <<x.status>>

----------------------------------------------------------------------------
(* Properties of the graph store: favourites *)

\* The distinct users with a FAVORITED edge to the product node.
FavoritedBy(edges, nid) ==
    { e.src : e \in { x \in edges : x.type = "FAVORITED" /\ x.dst = nid } }

\* C30: after any sequence of add_favorite operations the favorite_count of a
\* product created through the API is the number of distinct users with a
\* FAVORITED edge to it, and a favorite request that matches no user or no
\* product changes neither the edges nor a counter.
C30_FavoriteCountIsDistinctUsers ==
    [][ /\ \A p \in gProducts' :
              p.favorite_count = Cardinality(FavoritedBy(gEdges', p.nid))
        /\ \A u \in Usernames, id \in RecIdStrings :
              ( /\ UserNodes(u) = {} \/ ProductNodes(id) = {}
                /\ Neo_add_favorite(u, id) ) =>
                 UNCHANGED <<gEdges, gProducts>>
      ]_vars

====
